---------------------------- MODULE Spec2Model ----------------------------
(***************************************************************************)
(* A model of the zowser viewer: the multiscale resolver and the row       *)
(* preview that awaits it, the thumbnail generator, the main page's        *)
(* filter/sort engine over the Table Store, and CSV ingestion.             *)
(*                                                                         *)
(* JavaScript values are modelled as follows.  A string on which the code  *)
(* computes (trim, toLowerCase, includes) is a sequence of one-character   *)
(* strings; a URL on which the code only appends path segments is a        *)
(* sequence of segments.  An optional value (undefined or a value) is a    *)
(* sequence of length at most one.  A row object is a function from        *)
(* column names to cell values.                                            *)
(***************************************************************************)
EXTENDS Integers, Sequences, FiniteSets, TLC

VARIABLES
    \* ---- ZarrListItem.svelte and loadMultiscales ----
    calls,        \* the pending activations of loadMultiscales, innermost last
    item,         \* the row component: phase, destroyed, imgAttrs, imgUrl, plateAttrs
    aborted,      \* controller.signal.aborted
    served,       \* history: root location -> the document the server answered with
    returned,     \* history: root location -> the tuple the activation resolved to
    resolveLog,   \* history: what happened after the abort, and rejections
    \* ---- generateThumbnail ----
    thumbPc,      \* "idle", "open" (line 58), "read" (line 84), "done"
    thumbArgs,    \* the arguments of the call: attrs, thumbDatasetIndex, maxSize
    arr,          \* the array opened at line 58: its path and shape
    sliceReads,   \* history: the zarr.get calls issued, in order
    reads,        \* the promise of each zarr.get: "pending", "done", "failed"
    thumbResult,  \* "pending", "null", "raster", "rejected"
    \* ---- Table Store and the main page ----
    table,        \* the store's rows in display order, each with its insertion index
    page,         \* which of the two page components is mounted: "v1" or "v2"
    allRows,      \* the page's allRows, assigned from getRows() when it is created
    filters,      \* dimension, organism, modality, text
    tableRows,    \* the rows the page displays
    totalZarrs,   \* the page's total count
    sortedBy,     \* the page's sort field, "" for none
    sortAscending,
    sortLog,      \* history: the last sort handler, and whether a sort reordered rows
    \* ---- getViewConfig and loadCsv ----
    viewConfig,   \* _viewConfigPromise: "null", "pending" or "resolved", and its value
    loads,        \* the calls of loadCsv: request, pc, and (history) the rows it made
    waiting,      \* the loads awaiting getViewConfig(), in the order they began to wait
    ingestLog,    \* history: the loads in the order of their addRows calls, the
                  \* source summaries handed to the store, the fetches of config.yaml
    \* ---- the thumbnail component (Thumbnail.svelte, two versions) ----
    view,         \* showSpinner, mode, and where onMount's callback stands
    \* ---- util_core.js ----
    pure          \* the last call of a function of util_core.js: op, args, result

resolveVars == <<calls, item, aborted, served, returned, resolveLog>>

thumbVars == <<thumbPc, thumbArgs, arr, sliceReads, reads, thumbResult>>

storeVars == <<table>>

pageVars == <<page, allRows, filters, tableRows, totalZarrs, sortedBy, sortAscending, sortLog>>

ingestVars == <<viewConfig, loads, waiting, ingestLog>>

viewVars == <<view>>

pureVars == <<pure>>

vars == <<resolveVars, thumbVars, storeVars, pageVars, ingestVars, viewVars, pureVars>>

(***************************************************************************)
(* Bounds of the model.                                                    *)
(***************************************************************************)
\* The deepest nesting of descriptor documents the server offers.
MaxDepth == 3

(***************************************************************************)
(* Generic helpers.                                                        *)
(***************************************************************************)
Undefined == <<>>

Some(v) == <<v>>

IsDefined(o) == Len(o) > 0

Range(s) == {s[i] : i \in 1..Len(s)}

(***************************************************************************)
(* Multiscale resolver: loadMultiscales (thumbnailGenerator.js, util.js).  *)
(***************************************************************************)
\* zarrData?.attributes?.ome of a parsed zarr.json.  ome = FALSE: no vendor
\* block.  multiscales = 0: no multiscales key, k > 0: an image block (k tells
\* two blocks apart).  hasWells = FALSE: the plate object has no wells key.
OmeBlock(ome, ms, plate, hasWells, wells, bf) ==
    [ome |-> ome, multiscales |-> ms, plate |-> plate, hasWells |-> hasWells,
     wells |-> wells, bf2raw |-> bf]

Documents ==
    { OmeBlock(FALSE, 0, FALSE, FALSE, <<>>, FALSE),      \* no attributes.ome
      OmeBlock(TRUE, 0, FALSE, FALSE, <<>>, FALSE),       \* an unknown block
      OmeBlock(TRUE, 1, FALSE, FALSE, <<>>, FALSE),       \* a plain image
      OmeBlock(TRUE, 2, TRUE, TRUE, <<"B">>, FALSE),      \* image and plate keys
      OmeBlock(TRUE, 0, TRUE, TRUE, <<"A">>, FALSE),      \* plate, one well
      OmeBlock(TRUE, 0, TRUE, TRUE, <<"B", "A">>, TRUE),  \* plate, two wells
      OmeBlock(TRUE, 0, TRUE, TRUE, <<>>, FALSE),         \* plate, empty well list
      OmeBlock(TRUE, 0, TRUE, FALSE, <<>>, FALSE),        \* plate without wells
      OmeBlock(TRUE, 0, FALSE, FALSE, <<>>, TRUE) }       \* bioformats2raw.layout

\* What the plate object of a document is, as the third result.
PlateOf(d) == [hasWells |-> d.hasWells, wells |-> d.wells]

\* A result tuple [msData, msUrl] or [msData, msUrl, plate]; plate is
\* Undefined in a tuple of two.
Tuple(msData, msUrl, plate) == [msData |-> msData, msUrl |-> msUrl, plate |-> plate]

Unresolved(url) == Tuple(Undefined, url, Undefined)

\* An outcome of an activation: it resolves to a tuple or rejects.
Resolved(t) == [rejected |-> FALSE, tuple |-> t]

Rejected == [rejected |-> TRUE, tuple |-> Unresolved(<<>>)]

\* A variant that descends into the last well instead of the first.
PlateImagePathLastWell(url, d) == url \o <<d.wells[Len(d.wells)], "0">>

\* `${url}/${well.path}/0` and `${url}/0`.
PlateImagePath(url, d) == url \o <<d.wells[1], "0">>

Bf2rawUrl(url) == url \o <<"0">>

\* Lines 23-43 for a parsed document d at url, up to the first await:
\* "return" with the tuple, "throw" (TypeError on wells[0] or well.path),
\* or "call" with the url of the nested activation and the pc to wait at.
AfterParse(url, d) ==
    IF ~d.ome THEN [op |-> "return", tuple |-> Unresolved(url), url |-> url, pc |-> ""]
    ELSE IF d.multiscales > 0
    THEN [op |-> "return", tuple |-> Tuple(Some(d), url, Undefined), url |-> url, pc |-> ""]
    ELSE IF d.plate
    THEN IF d.hasWells /\ Len(d.wells) > 0
         THEN [op |-> "call", tuple |-> Unresolved(url),
               url |-> PlateImagePath(url, d), pc |-> "plate"]
         ELSE [op |-> "throw", tuple |-> Unresolved(url), url |-> url, pc |-> ""]
    ELSE IF d.bf2raw
    THEN [op |-> "call", tuple |-> Unresolved(url), url |-> Bf2rawUrl(url), pc |-> "bf2raw"]
    ELSE [op |-> "return", tuple |-> Unresolved(url), url |-> url, pc |-> ""]

\* What the activation waiting at pc (line 33 or line 40) makes of the
\* outcome of its nested activation.
AfterInner(frame, outcome) ==
    IF outcome.rejected THEN Rejected
    ELSE IF frame.pc = "plate"
    THEN Resolved(Tuple(outcome.tuple.msData, outcome.tuple.msUrl,
                        Some(PlateOf(frame.doc))))
    ELSE outcome

\* The outcomes of the activations in stack, innermost last, once the
\* innermost one ends with outcome: all of them end in the same microtask
\* chain.  The result is a sequence of outcomes, one per activation.
RECURSIVE Unwind(_, _)
Unwind(stack, outcome) ==
    IF Len(stack) = 1 THEN <<outcome>>
    ELSE LET n == Len(stack)
             outer == Unwind(SubSeq(stack, 1, n - 1),
                             AfterInner(stack[n - 1], outcome))
         IN  Append(outer, outcome)

\* The onMount continuation of ZarrListItem (lines 76-79) on the outcome of
\* the top-level call.
Continuation(it, outcome) ==
    IF outcome.rejected
    THEN [it EXCEPT !.phase = "rejected"]
    ELSE [it EXCEPT !.phase = "assigned",
                    !.imgAttrs = outcome.tuple.msData,
                    !.imgUrl = Some(outcome.tuple.msUrl),
                    !.plateAttrs = outcome.tuple.plate]

\* Roots a row can ask for: rowData.url (a host and a name), or
\* rowData.url + "/" + series0.
Roots == { <<"h", "r">>, <<"g", "r">>, <<"h", "r", "s">> }

\* path.basename(zarrUrl) of precache_thumbs.js (line 54), which names the
\* cached file, on a url given by its path segments.
basename(zarrUrl) == zarrUrl[Len(zarrUrl)]

\* basenameFromSource(src) of the Thumbnail components (lines 29-38): the
\* last of the segments of the pathname that are not empty.
basenameFromSource(src) ==
    LET parts == SelectSeq(src, LAMBDA part : part # "") IN parts[Len(parts)]

NoDoc == OmeBlock(FALSE, 0, FALSE, FALSE, <<>>, FALSE)

Frame(url, pc, doc) == [url |-> url, pc |-> pc, doc |-> doc]

\* History functions as sets of pairs, to keep the state comparable.
Put(hist, url, v) == {p \in hist : p[1] # url} \cup {<<url, v>>}

Has(hist, url) == \E p \in hist : p[1] = url

Get(hist, url) == (CHOOSE p \in hist : p[1] = url)[2]

RECURSIVE PutOutcomes(_, _, _)
PutOutcomes(hist, stack, outcomes) ==
    IF Len(stack) = 0 THEN hist
    ELSE PutOutcomes(Put(hist, stack[1].url, outcomes[1]), Tail(stack), Tail(outcomes))

ResolveIdle ==
    /\ calls = <<>>
    /\ item = [phase |-> "created", destroyed |-> FALSE, imgAttrs |-> Undefined,
               imgUrl |-> Undefined, plateAttrs |-> Undefined]
    /\ aborted = FALSE
    /\ served = {}
    /\ returned = {}
    /\ resolveLog = [warnedAfterAbort |-> FALSE, continuedAfterAbort |-> FALSE,
                     abortedInFlight |-> FALSE]

\* onMount: the call of loadMultiscales runs to its first await, the fetch.
Mount ==
    /\ item.phase = "created"
    /\ \E root \in Roots :
         calls' = <<Frame(root, "fetch", NoDoc)>>
    /\ item' = [item EXCEPT !.phase = "awaiting"]
    /\ UNCHANGED <<aborted, served, returned, resolveLog>>
    /\ UNCHANGED <<thumbVars, storeVars, pageVars, ingestVars, viewVars, pureVars>>

\* onDestroy: controller.abort().
Destroy ==
    /\ item.phase # "created"
    /\ ~item.destroyed
    /\ item' = [item EXCEPT !.destroyed = TRUE]
    /\ aborted' = TRUE
    /\ resolveLog' = [resolveLog EXCEPT !.abortedInFlight =
                         Len(calls) > 0 /\ calls[Len(calls)].pc \in {"fetch", "json"}]
    /\ UNCHANGED <<calls, served, returned>>
    /\ UNCHANGED <<thumbVars, storeVars, pageVars, ingestVars, viewVars, pureVars>>

\* The innermost activation ends with outcome; with it end all the
\* activations awaiting it, and the continuation of onMount runs.
Finish(outcome, warned) ==
    LET outs == Unwind(calls, outcome) IN
    /\ returned' = PutOutcomes(returned, calls, outs)
    /\ calls' = <<>>
    /\ item' = Continuation(item, outs[1])
    /\ resolveLog' = [resolveLog EXCEPT
                        !.warnedAfterAbort = @ \/ (warned /\ aborted),
                        !.continuedAfterAbort = @ \/ (aborted /\ ~outs[1].rejected)]

\* The fetch of lines 15-16 settles: it rejects (network error, or AbortError
\* once the signal is aborted), answers with a status that is not OK, or
\* answers OK.  Every failure lands in the catch of lines 18-21.
FetchSettles ==
    /\ Len(calls) > 0
    /\ LET top == calls[Len(calls)] IN
       /\ top.pc = "fetch"
       /\ \E result \in (IF aborted THEN {"AbortError"}
                         ELSE {"NetworkError", "NotOk", "Ok"}) :
            IF result = "Ok"
            THEN /\ calls' = [calls EXCEPT ![Len(calls)].pc = "json"]
                 /\ UNCHANGED <<item, returned, resolveLog>>
            ELSE Finish(Resolved(Unresolved(top.url)), TRUE)
    /\ UNCHANGED <<aborted, served>>
    /\ UNCHANGED <<thumbVars, storeVars, pageVars, ingestVars, viewVars, pureVars>>

\* res.json() of line 17 settles, and lines 23-43 run to the next await.
JsonSettles ==
    /\ Len(calls) > 0
    /\ LET top == calls[Len(calls)]
           offered == IF Len(calls) < MaxDepth THEN Documents
                      ELSE {d \in Documents : AfterParse(top.url, d).op # "call"} IN
       /\ top.pc = "json"
       /\ IF aborted
          THEN /\ Finish(Resolved(Unresolved(top.url)), TRUE)
               /\ UNCHANGED served
          ELSE \/ /\ Finish(Resolved(Unresolved(top.url)), TRUE)   \* unparsable body
                  /\ UNCHANGED served
               \/ \E d \in offered :
                    LET next == AfterParse(top.url, d) IN
                    /\ served' = Put(served, top.url, d)
                    /\ CASE next.op = "return" -> Finish(Resolved(next.tuple), FALSE)
                         [] next.op = "throw" -> Finish(Rejected, FALSE)
                         [] next.op = "call" ->
                              /\ calls' = Append([calls EXCEPT ![Len(calls)] =
                                                     Frame(top.url, next.pc, d)],
                                                 Frame(next.url, "fetch", NoDoc))
                              /\ UNCHANGED <<item, returned, resolveLog>>
    /\ UNCHANGED aborted
    /\ UNCHANGED <<thumbVars, storeVars, pageVars, ingestVars, viewVars, pureVars>>

(***************************************************************************)
(* Thumbnail generator: generateThumbnail (thumbnailGenerator.js).         *)
(***************************************************************************)
\* export const MAX_CHANNELS = 4 (util_core.js).
MAX_CHANNELS == 4

\* The most channels an opened array has along its channel axis.
MaxChannels == 5

\* The largest extent of an axis of an opened array.
MaxExtent == 3

\* An image descriptor: attrs.multiscales (a list of images, each with its
\* datasets' paths and its axes' names) and attrs.omero?.channels (the
\* active flag and the colour of each channel, when the display hints are
\* present).
ImageAttrs(multiscales, omero) == [multiscales |-> multiscales, omero |-> omero]

Channel(active, color) == [active |-> active, color |-> color]

Multiscale(paths, axes) == [paths |-> paths, axes |-> axes]

ThumbAttrs ==
    { ImageAttrs(<<>>, Undefined),
      ImageAttrs(<<Multiscale(<<"0", "1">>, <<"c", "y", "x">>)>>, Undefined),
      ImageAttrs(<<Multiscale(<<"0", "1">>, <<"c", "y", "x">>)>>,
                 Some(<<Channel(TRUE, <<"F", "F", "0", "0", "0", "0">>),
                        Channel(FALSE, <<"0", "0", "F", "F", "0", "0">>)>>)),
      ImageAttrs(<<Multiscale(<<"0", "1">>, <<"c", "y", "x">>)>>,
                 Some(<<Channel(FALSE, <<"F", "F", "0", "0", "0", "0">>),
                        Channel(TRUE, <<"0", "0", "F", "F", "0", "0">>)>>)),
      ImageAttrs(<<Multiscale(<<"0">>, <<"z", "y", "x">>)>>, Undefined),
      ImageAttrs(<<Multiscale(<<"0", "1", "2">>, <<"y", "x">>)>>, Undefined),
      ImageAttrs(<<Multiscale(<<"0">>, <<"z", "c", "y", "x">>)>>, Undefined),
      ImageAttrs(<<Multiscale(<<>>, <<"y", "x">>)>>, Undefined) }

\* thumbDatasetIndex: undefined, or the index ZarrListItem computed.
DatasetIndexes == {Undefined} \cup {Some(i) : i \in 0..3}

\* maxSize, scaled down from the 512 and 2000 of the callers.
MaxSizes == {1, 2}

\* The shapes the store may hold for an array of the given rank.
Shapes(rank) ==
    IF rank = 2 THEN {<<h, w>> : h \in 1..MaxExtent, w \in 1..MaxExtent}
    ELSE IF rank = 3
    THEN {<<c, h, w>> : c \in {1, 2, MaxChannels}, h \in {1, MaxExtent}, w \in 1..MaxExtent}
    ELSE {<<z, c, 1, w>> : z \in {1, 2, MaxExtent}, c \in {1, 2}, w \in {1, 2}}

\* Array.prototype.at with a negative index.
AtEnd(s, back) == s[Len(s) + 1 - back]

\* axes.indexOf("c"), 0-based, -1 when there is no such axis.
IndexOf(s, x) ==
    IF \E i \in 1..Len(s) : s[i] = x
    THEN (CHOOSE i \in 1..Len(s) : s[i] = x /\ \A j \in 1..(i - 1) : s[j] # x) - 1
    ELSE -1

\* Lines 53-55: the path of the level to read; paths.at(-1) of an empty
\* list is undefined, which the template of line 57 prints.
ChosenPath(paths, index) ==
    IF IsDefined(index) /\ index[1] < Len(paths)
    THEN paths[index[1] + 1]
    ELSE IF Len(paths) = 0 THEN "undefined"
    ELSE AtEnd(paths, 1)

\* A variant of the guard that multiplies the two leading dimensions.
TooLargeLeading(shape, maxSize) == shape[1] * shape[2] > maxSize * maxSize

\* Line 63: the guard on the trailing plane.
TooLarge(shape, maxSize) == AtEnd(shape, 1) * AtEnd(shape, 2) > maxSize * maxSize

\* getDefaultVisibilities(n), util_core.js.
getDefaultVisibilities(n) == [i \in 1..n |-> i <= MAX_CHANNELS]

\* Line 68: shape[chDim] || 1.
ChannelCount(shape, chDim) ==
    IF chDim >= 0 /\ chDim < Len(shape) /\ shape[chDim + 1] # 0
    THEN shape[chDim + 1] ELSE 1

\* Lines 69-71.
Visibilities(attrs, channelCount) ==
    IF IsDefined(attrs.omero)
    THEN [i \in 1..Len(attrs.omero[1]) |-> attrs.omero[1][i].active]
    ELSE getDefaultVisibilities(channelCount)

\* Line 76: the indices (0-based) of the visible channels, in order.
RECURSIVE ActiveFrom(_, _)
ActiveFrom(vis, i) ==
    IF i > Len(vis) THEN <<>>
    ELSE (IF vis[i] THEN <<i - 1>> ELSE <<>>) \o ActiveFrom(vis, i + 1)

Active(vis) == ActiveFrom(vis, 1)

Fixed(i) == [kind |-> "index", start |-> i, stop |-> i, step |-> 0]

\* A variant of the selection that takes the midpoint rounded up.
slicesForRoundedUp(shape, chDim, ch) ==
    [i \in 1..Len(shape) |->
        IF i - 1 = chDim THEN Fixed(ch)
        ELSE IF i - 1 >= Len(shape) - 2
             THEN [kind |-> "range", start |-> 0, stop |-> shape[i], step |-> 1]
        ELSE Fixed((shape[i] + 1) \div 2)]

\* Lines 77-82: the selection for channel ch, one entry per axis of shape.
slicesFor(shape, chDim, ch) ==
    [i \in 1..Len(shape) |->
        IF i - 1 = chDim THEN Fixed(ch)
        ELSE IF i - 1 >= Len(shape) - 2
             THEN [kind |-> "range", start |-> 0, stop |-> shape[i], step |-> 1]
        ELSE Fixed(shape[i] \div 2)]

NoArray == [path |-> "", shape |-> <<>>]

ThumbIdle ==
    /\ thumbPc = "idle"
    /\ thumbArgs = [attrs |-> ImageAttrs(<<>>, Undefined), index |-> Undefined, maxSize |-> 0]
    /\ arr = NoArray
    /\ sliceReads = <<>>
    /\ reads = <<>>
    /\ thumbResult = "pending"

\* The call, up to the await of zarr.open at line 58.
GenerateThumbnailCall ==
    /\ thumbPc = "idle"
    /\ \E attrs \in ThumbAttrs, index \in DatasetIndexes, maxSize \in MaxSizes :
         /\ thumbArgs' = [attrs |-> attrs, index |-> index, maxSize |-> maxSize]
         /\ IF Len(attrs.multiscales) = 0
            THEN /\ thumbPc' = "done"
                 /\ thumbResult' = "null"
                 /\ arr' = arr
            ELSE /\ thumbPc' = "open"
                 /\ thumbResult' = "pending"
                 /\ arr' = [path |-> ChosenPath(attrs.multiscales[1].paths, index),
                            shape |-> <<>>]
    /\ UNCHANGED <<sliceReads, reads>>

\* generateThumbnail called on its own.
GenerateThumbnail ==
    /\ GenerateThumbnailCall
    /\ UNCHANGED <<resolveVars, storeVars, pageVars, ingestVars, viewVars, pureVars>>

\* A variant of Promise.all that fulfils with the first read that completes.
PromiseAllFirst(promises) ==
    IF \E k \in 1..Len(promises) : promises[k] = "failed" THEN "rejected"
    ELSE IF \E k \in 1..Len(promises) : promises[k] = "done" THEN "fulfilled"
    ELSE "pending"

\* Promise.all (line 84): rejected once a promise is, fulfilled once all are.
PromiseAll(promises) ==
    IF \E k \in 1..Len(promises) : promises[k] = "failed" THEN "rejected"
    ELSE IF \A k \in 1..Len(promises) : promises[k] = "done" THEN "fulfilled"
    ELSE "pending"

\* zarr.open settles: it rejects, or yields the array, and lines 60-86 run up
\* to the await of Promise.all: active.map calls zarr.get for every visible
\* channel.  Promise.all of no read is fulfilled at once, and
\* renderTo8bitArray reads ndChunks[0].shape, a TypeError.
OpenSettlesCall ==
    /\ thumbPc = "open"
    /\ \/ /\ thumbPc' = "done"
          /\ thumbResult' = "rejected"
          /\ UNCHANGED <<arr, sliceReads, reads>>
       \/ \E shape \in Shapes(Len(thumbArgs.attrs.multiscales[1].axes)) :
            LET chDim == IndexOf(thumbArgs.attrs.multiscales[1].axes, "c")
                vis == Visibilities(thumbArgs.attrs, ChannelCount(shape, chDim))
                active == Active(vis) IN
            /\ arr' = [arr EXCEPT !.shape = shape]
            /\ IF TooLarge(shape, thumbArgs.maxSize)
               THEN /\ thumbPc' = "done"
                    /\ thumbResult' = "null"
                    /\ UNCHANGED <<sliceReads, reads>>
               ELSE /\ sliceReads' = [k \in 1..Len(active) |->
                                         slicesFor(shape, chDim, active[k])]
                    /\ reads' = [k \in 1..Len(active) |-> "pending"]
                    /\ IF Len(active) = 0
                       THEN thumbPc' = "done" /\ thumbResult' = "rejected"
                       ELSE thumbPc' = "read" /\ thumbResult' = "pending"
    /\ UNCHANGED thumbArgs

OpenSettles ==
    /\ OpenSettlesCall
    /\ UNCHANGED <<resolveVars, storeVars, pageVars, ingestVars, viewVars, pureVars>>

\* One of the slice reads settles.  While the call awaits Promise.all
\* (line 84), the first failure rejects the call, and the completion of the
\* last read lets lines 88-91 run; a read that settles after the call has
\* rejected changes nothing.
ReadsSettleCall ==
    /\ thumbPc \in {"read", "done"}
    /\ \E k \in 1..Len(reads), outcome \in {"done", "failed"} :
         /\ reads[k] = "pending"
         /\ reads' = [reads EXCEPT ![k] = outcome]
    /\ IF thumbPc = "read" /\ PromiseAll(reads') = "rejected"
       THEN thumbPc' = "done" /\ thumbResult' = "rejected"
       ELSE IF thumbPc = "read" /\ PromiseAll(reads') = "fulfilled"
       THEN thumbPc' = "done" /\ thumbResult' = "raster"
       ELSE UNCHANGED <<thumbPc, thumbResult>>
    /\ UNCHANGED <<thumbArgs, arr, sliceReads>>

ReadsSettle ==
    /\ ReadsSettleCall
    /\ UNCHANGED <<resolveVars, storeVars, pageVars, ingestVars, viewVars, pureVars>>

(***************************************************************************)
(* The thumbnail component: Thumbnail.svelte drawing on a canvas with      *)
(* generateThumbnail ("canvas"), and Thumbnail.svelte setting an image     *)
(* from omezarr.renderThumbnail ("img").                                   *)
(***************************************************************************)
\* The state of a component at construction (lines 12-27 and 12-25).
\* The other fields are history.  probe: how the cached probe ended; live:
\* how the live generation ended; drawn: whether its raster reached the
\* canvas or the image element; warned: whether a warning was logged;
\* modes: the values mode has had; generations: the live generations
\* started; lateWrite: a continuation assigned mode or showSpinner after
\* the component was destroyed; lateError: a continuation that ran after
\* the component was destroyed threw or left a rejection unhandled.
NewView(component) ==
    [component |-> component, pc |-> "created", showSpinner |-> TRUE, mode |-> "none",
     destroyed |-> FALSE, probe |-> "pending", live |-> "none", drawn |-> FALSE,
     warned |-> FALSE, modes |-> <<"none">>, generations |-> 0,
     lateWrite |-> FALSE, lateError |-> FALSE]

ViewIdle == view = NewView("canvas")

\* A variant of the continuation without the early return of line 71-75.
LiveContinuationFallsThrough(v, result) ==
    CASE result = "pending" -> v
      [] result = "rejected" ->
           [v EXCEPT !.pc = "done", !.live = "rejected", !.lateError = @ \/ v.destroyed]
      [] result = "null" ->
           [v EXCEPT !.pc = "done", !.live = "null", !.warned = TRUE, !.showSpinner = FALSE,
                     !.lateWrite = @ \/ v.destroyed]
      [] result = "raster" ->
           IF v.destroyed
           THEN [v EXCEPT !.pc = "done", !.live = "raster", !.lateError = TRUE]
           ELSE [v EXCEPT !.pc = "done", !.live = "raster", !.drawn = TRUE,
                          !.showSpinner = FALSE]

\* loadFromZarr after the await of generateThumbnail (canvas, lines 71-90),
\* for the result the call has so far.  A rejection ends loadFromZarr and
\* the onMount callback, whose promise nobody handles; no result is a
\* warning and a return; a raster is drawn after tick(), where canvas is
\* null once the component is destroyed and getContext throws.
LiveContinuation(v, result) ==
    CASE result = "pending" -> v
      [] result = "rejected" ->
           [v EXCEPT !.pc = "done", !.live = "rejected", !.lateError = @ \/ v.destroyed]
      [] result = "null" -> [v EXCEPT !.pc = "done", !.live = "null", !.warned = TRUE]
      [] result = "raster" ->
           IF v.destroyed
           THEN [v EXCEPT !.pc = "done", !.live = "raster", !.lateError = TRUE]
           ELSE [v EXCEPT !.pc = "done", !.live = "raster", !.drawn = TRUE,
                          !.showSpinner = FALSE]

\* onMount: tryCachedFirst starts the probe.
ThumbnailMount ==
    /\ view.pc = "created"
    /\ \E component \in {"canvas", "img"} :
         view' = [NewView(component) EXCEPT !.pc = "probing"]
    /\ UNCHANGED <<resolveVars, thumbVars, storeVars, pageVars, ingestVars, pureVars>>

\* onDestroy: controller.abort(); Svelte sets the bound elements to null.
ThumbnailDestroy ==
    /\ view.pc # "created"
    /\ ~view.destroyed
    /\ view' = [view EXCEPT !.destroyed = TRUE]
    /\ UNCHANGED <<resolveVars, thumbVars, storeVars, pageVars, ingestVars, pureVars>>

\* A variant of onMount that generates whatever the probe found.
StartsLiveAlways(hasCached) == TRUE

\* onMount after the await of tryCachedFirst (canvas lines 94-98, img lines
\* 77-80): if (!hasCached).
StartsLive(hasCached) == ~hasCached

\* onMount goes on from v, the component after the handler of the probe,
\* with what tryCachedFirst resolved to.  The canvas component sets mode
\* and calls generateThumbnail (lines 60-69), which may return at once; the
\* img component calls omezarr.renderThumbnail (lines 58-66).
OnMountResumes(v, hasCached) ==
    IF ~StartsLive(hasCached)
    THEN /\ view' = [v EXCEPT !.pc = "done"]
         /\ UNCHANGED thumbVars
    ELSE IF v.component = "canvas"
    THEN /\ GenerateThumbnailCall
         /\ view' = LiveContinuation([v EXCEPT !.pc = "generating", !.mode = "live",
                                               !.modes = Append(@, "live"),
                                               !.live = "pending",
                                               !.generations = @ + 1,
                                               !.lateWrite = @ \/ v.destroyed],
                                     thumbResult')
    ELSE /\ view' = [v EXCEPT !.pc = "rendering", !.live = "pending",
                              !.generations = @ + 1]
         /\ UNCHANGED thumbVars

\* probe.onload (canvas lines 49-54, img lines 47-52): mode and showSpinner
\* are assigned, then the image element gets the cached url.  In the
\* canvas component imgEl is null once the component is destroyed, the
\* assignment throws and resolve is never called; the img component tests
\* imgEl.
ProbeLoads ==
    /\ view.pc = "probing"
    /\ LET v == [view EXCEPT !.probe = "loaded", !.mode = "cached",
                             !.modes = Append(@, "cached"), !.showSpinner = FALSE,
                             !.lateWrite = @ \/ view.destroyed] IN
       IF view.component = "canvas" /\ view.destroyed
       THEN /\ view' = [v EXCEPT !.pc = "done", !.lateError = TRUE]
            /\ UNCHANGED thumbVars
       ELSE OnMountResumes(v, TRUE)
    /\ UNCHANGED <<resolveVars, storeVars, pageVars, ingestVars, pureVars>>

\* probe.onerror: resolve(false), and onMount goes on.
ProbeFails ==
    /\ view.pc = "probing"
    /\ OnMountResumes([view EXCEPT !.probe = "failed"], FALSE)
    /\ UNCHANGED <<resolveVars, storeVars, pageVars, ingestVars, pureVars>>

\* zarr.open settles inside the generateThumbnail of the canvas component.
ThumbnailOpenSettles ==
    /\ view.pc = "generating"
    /\ OpenSettlesCall
    /\ view' = LiveContinuation(view, thumbResult')
    /\ UNCHANGED <<resolveVars, storeVars, pageVars, ingestVars, pureVars>>

\* The slice reads settle inside the generateThumbnail of the canvas
\* component.
ThumbnailReadsSettle ==
    /\ ReadsSettleCall
    /\ view' = IF view.pc = "generating" THEN LiveContinuation(view, thumbResult') ELSE view
    /\ UNCHANGED <<resolveVars, storeVars, pageVars, ingestVars, pureVars>>

\* omezarr.renderThumbnail settles (img, lines 61-73): a data URL, which
\* goes to the image element if there still is one, or a rejection, which
\* the catch logs.
RenderSettles ==
    /\ view.pc = "rendering"
    /\ \/ view' = [view EXCEPT !.pc = "done", !.live = "raster", !.mode = "live",
                               !.modes = Append(@, "live"),
                               !.drawn = ~view.destroyed, !.showSpinner = FALSE,
                               !.lateWrite = @ \/ view.destroyed]
       \/ view' = [view EXCEPT !.pc = "done", !.live = "rejected", !.warned = TRUE]
    /\ UNCHANGED <<resolveVars, thumbVars, storeVars, pageVars, ingestVars, pureVars>>

(***************************************************************************)
(* util_core.js: hexToRGB.                                                 *)
(***************************************************************************)
\* The longest colour string of the model.
MaxHexLen == 7

RECURSIVE StringsUpTo(_, _)
StringsUpTo(chars, n) ==
    IF n = 0 THEN {<<>>}
    ELSE LET shorter == StringsUpTo(chars, n - 1) IN
         shorter \cup {Append(str, c) : str \in {x \in shorter : Len(x) = n - 1}, c \in chars}

\* The colour strings of the model, over the prefix, two hexadecimal digits
\* and a character that is no digit.  None is a sign, white space or x, which
\* parseInt would treat specially.
HexInputs == StringsUpTo({"#", "0", "F", "g"}, MaxHexLen)

\* The value of a hexadecimal digit, -1 for any other character.
HexValue(c) ==
    CASE c = "0" -> 0
      [] c = "F" -> 15
      [] OTHER -> -1

\* NaN, among numbers held as Some(n).
NaN == <<>>

\* parseInt(str, 16): the value of the longest prefix of digits, NaN when
\* the first character is no digit.
RECURSIVE ParseFrom(_, _, _)
ParseFrom(str, i, acc) ==
    IF i > Len(str) \/ HexValue(str[i]) < 0 THEN acc
    ELSE ParseFrom(str, i + 1, acc * 16 + HexValue(str[i]))

parseInt16(str) ==
    IF Len(str) = 0 \/ HexValue(str[1]) < 0 THEN NaN
    ELSE Some(ParseFrom(str, 1, 0))

\* String.prototype.slice(from, to) with 0 <= from <= to.
slice(str, from, to) ==
    SubSeq(str, from + 1, IF to < Len(str) THEN to ELSE Len(str))

\* hexToRGB(hex), lines 16-22: it returns, whatever the string.
hexToRGB(hex) ==
    LET digits == IF Len(hex) > 0 /\ hex[1] = "#" THEN Tail(hex) ELSE hex IN
    [threw |-> FALSE,
     rgb |-> <<parseInt16(slice(digits, 0, 2)), parseInt16(slice(digits, 2, 4)),
               parseInt16(slice(digits, 4, 6))>>]

NoCall == [op |-> "none", args |-> <<>>, result |-> <<>>]

PureIdle == pure = NoCall

\* A call of hexToRGB.
HexToRGB ==
    /\ pure = NoCall
    /\ \E hex \in HexInputs :
         pure' = [op |-> "hexToRGB", args |-> <<hex>>, result |-> hexToRGB(hex)]
    /\ UNCHANGED <<resolveVars, thumbVars, storeVars, pageVars, ingestVars, viewVars>>

(***************************************************************************)
(* util_core.js: the default colours.                                      *)
(***************************************************************************)
\* The most channels getDefaultColors is asked colours for.
MaxColourChannels == 6

\* COLORS, lines 26-34.
COLORS ==
    [cyan    |-> <<"#", "0", "0", "F", "F", "F", "F">>,
     yellow  |-> <<"#", "F", "F", "F", "F", "0", "0">>,
     magenta |-> <<"#", "F", "F", "0", "0", "F", "F">>,
     red     |-> <<"#", "F", "F", "0", "0", "0", "0">>,
     green   |-> <<"#", "0", "0", "F", "F", "0", "0">>,
     blue    |-> <<"#", "0", "0", "0", "0", "F", "F">>,
     white   |-> <<"#", "F", "F", "F", "F", "F", "F">>]

MAGENTA_GREEN == <<COLORS.magenta, COLORS.green>>

RGB == <<COLORS.red, COLORS.green, COLORS.blue>>

\* Object.values(COLORS).slice(0, -2): the values in the order of the keys.
CYMRGB ==
    LET values == <<COLORS.cyan, COLORS.yellow, COLORS.magenta, COLORS.red,
                    COLORS.green, COLORS.blue, COLORS.white>>
    IN  SubSeq(values, 1, Len(values) - 2)

\* The visibility vectors of n channels.
RECURSIVE VisibilityVectors(_)
VisibilityVectors(n) ==
    IF n = 0 THEN {<<>>}
    ELSE {Append(v, b) : v \in VisibilityVectors(n - 1), b \in BOOLEAN}

\* Lines 48-59: the colour strings, Undefined where CYMRGB[i] is.
ColourStrings(n, visibilities) ==
    IF n = 1 THEN <<COLORS.white>>
    ELSE IF n = 2 THEN MAGENTA_GREEN
    ELSE IF n = 3 THEN RGB
    ELSE IF n <= MAX_CHANNELS THEN SubSeq(CYMRGB, 1, n)
    ELSE LET visibleIndices == Active(visibilities) IN
         [idx \in 1..n |->
            IF \E i \in 1..Len(visibleIndices) : visibleIndices[i] = idx - 1
            THEN LET i == CHOOSE k \in 1..Len(visibleIndices) : visibleIndices[k] = idx - 1
                 IN  IF i <= Len(CYMRGB) THEN Some(CYMRGB[i]) ELSE Undefined
            ELSE Some(COLORS.white)]

\* getDefaultColors(n, visibilities), lines 47-61: colors.map(hexToRGB)
\* throws a TypeError on an undefined colour string.
getDefaultColors(n, visibilities) ==
    LET strings == ColourStrings(n, visibilities) IN
    IF n > MAX_CHANNELS
    THEN IF \E i \in 1..n : strings[i] = Undefined
         THEN [threw |-> TRUE, colors |-> <<>>]
         ELSE [threw |-> FALSE, colors |-> [i \in 1..n |-> hexToRGB(strings[i][1]).rgb]]
    ELSE [threw |-> FALSE, colors |-> [i \in 1..Len(strings) |-> hexToRGB(strings[i]).rgb]]

\* A call of getDefaultColors.
GetDefaultColors ==
    /\ pure = NoCall
    /\ \E n \in 0..MaxColourChannels :
         \E visibilities \in VisibilityVectors(n) :
           pure' = [op |-> "getDefaultColors", args |-> <<n, visibilities>>,
                    result |-> getDefaultColors(n, visibilities)]
    /\ UNCHANGED <<resolveVars, thumbVars, storeVars, pageVars, ingestVars, viewVars>>

(***************************************************************************)
(* util_core.js: getMinMaxValues and renderTo8bitArray.                    *)
(***************************************************************************)
\* The largest raw value of a pixel.  The quotients of the values up to it
\* are computed exactly, in floating point as in the integers.
MaxValue == 2

\* The most chunks renderTo8bitArray is given.
MaxRenderChannels == 2

\* The planes of the model: a row of three pixels of unsigned values, the
\* first of them 0, or all of them the same.
Chunk(shape, data) == [shape |-> shape, data |-> data]

Chunks ==
    {Chunk(<<1, 3>>, <<0, a, b>>) : a \in 0..MaxValue, b \in 0..MaxValue}
        \cup {Chunk(<<1, 3>>, <<v, v, v>>) : v \in 1..MaxValue}

\* The colour triples the chunks are rendered with.
RenderColors == {hexToRGB(c).rgb : c \in {COLORS.white, COLORS.magenta}}

RECURSIVE SequencesOf(_, _)
SequencesOf(set, n) ==
    IF n = 0 THEN {<<>>}
    ELSE {Append(sq, x) : sq \in SequencesOf(set, n - 1), x \in set}

\* getMinMaxValues(chunk2d), lines 4-14: maxV starts at 0, minV at
\* Infinity.
getMinMaxValues(chunk2d) ==
    LET data == Range(chunk2d.data)
        minV == CHOOSE v \in data : \A w \in data : v <= w
        maxV == CHOOSE v \in data \cup {0} : \A w \in data \cup {0} : w <= v
    IN  <<minV, maxV>>

\* A variant of lines 77-79 in which a range of zero counts as the full
\* intensity.
ScaledValueFullOnZeroRange(rawValue, range, component) ==
    IF component = NaN THEN 0
    ELSE IF range[2] = range[1] THEN component[1]
    ELSE LET num == (rawValue - range[1]) * component[1]
             den == range[2] - range[1] IN
         IF (num >= 0) = (den > 0) THEN num \div den ELSE -((-num) \div den)

\* Lines 77 and 79: fraction = (rawValue - range[0]) / (range[1] - range[0])
\* and v = (fraction * rgb[i]) << 0.  The division by a range of zero gives
\* NaN (0 / 0) or an infinity; the product with a colour is NaN where a
\* factor is NaN or the factors are an infinity and 0, and an infinity
\* otherwise; << 0 turns NaN and the infinities into 0 and cuts a finite
\* product to an integer.
ScaledValue(rawValue, range, component) ==
    LET num == rawValue - range[1]
        den == range[2] - range[1]
        fraction == IF den # 0 THEN "finite"
                    ELSE IF num = 0 THEN "NaN"
                    ELSE IF num > 0 THEN "Infinity" ELSE "-Infinity"
        product == IF fraction = "NaN" \/ component = NaN THEN "NaN"
                   ELSE IF fraction = "finite" THEN "finite"
                   ELSE IF component[1] = 0 THEN "NaN"
                   ELSE fraction
    IN  IF product # "finite" THEN 0
        ELSE LET n == num * component[1] IN
             IF (n >= 0) = (den > 0) THEN n \div den ELSE -((-n) \div den)

\* A store into a Uint8ClampedArray.
Clamped(v) == IF v < 0 THEN 0 ELSE IF v > 255 THEN 255 ELSE v

\* A variant of line 80 that adds the channels up.
AccumulateSum(current, v) == Clamped(current + v)

\* Line 80: rgba[..] = Math.max(rgba[..], v).
Accumulate(current, v) == Clamped(IF current >= v THEN current ELSE v)

\* Lines 72-82 for pixel y and component i, from channel p on.
RECURSIVE Composite(_, _, _, _, _, _, _)
Composite(ndChunks, minMaxValues, colors, y, i, p, current) ==
    IF p > Len(ndChunks) THEN current
    ELSE Composite(ndChunks, minMaxValues, colors, y, i, p + 1,
                   Accumulate(current,
                              ScaledValue(ndChunks[p].data[y], minMaxValues[p], colors[p][i])))

\* renderTo8bitArray(ndChunks, minMaxValues, colors), lines 63-88; the
\* result is the array rgba, from index 1.
renderTo8bitArray(ndChunks, minMaxValues, colors) ==
    LET pixels == ndChunks[1].shape[1] * ndChunks[1].shape[2] IN
    [k \in 1..(4 * pixels) |->
        LET y == ((k - 1) \div 4) + 1
            i == ((k - 1) % 4) + 1 IN
        IF i = 4 THEN 255
        ELSE Composite(ndChunks, minMaxValues, colors, y, i, 1, 0)]

\* Lines 88-89 of generateThumbnail: the chunks read are rendered with
\* their own ranges.
RenderTo8bitArray ==
    /\ pure = NoCall
    /\ \E n \in 1..MaxRenderChannels :
         \E chunks \in SequencesOf(Chunks, n), colors \in SequencesOf(RenderColors, n) :
           LET minmax == [p \in 1..n |-> getMinMaxValues(chunks[p])] IN
           pure' = [op |-> "renderTo8bitArray", args |-> <<chunks, minmax, colors>>,
                    result |-> renderTo8bitArray(chunks, minmax, colors)]
    /\ UNCHANGED <<resolveVars, thumbVars, storeVars, pageVars, ingestVars, viewVars>>

(***************************************************************************)
(* generateThumbnail: the colours of the channels.                         *)
(***************************************************************************)
\* Lines 72-74: a colour for every channel, from the display hints or by
\* default.
Colors(attrs, channelCount, vis) ==
    IF IsDefined(attrs.omero)
    THEN [i \in 1..Len(attrs.omero[1]) |-> hexToRGB(attrs.omero[1][i].color).rgb]
    ELSE getDefaultColors(channelCount, vis).colors

\* Line 73 of renderTo8bitArray: the colour the chunk at position p (from
\* 0) of ndChunks is rendered with.
ColorOfChunk(colors, p) == colors[p + 1]

(***************************************************************************)
(* Strings on which the page computes.                                     *)
(***************************************************************************)
\* String.prototype.toLowerCase, on the characters of the model.
toLowerCase(str) ==
    [i \in 1..Len(str) |->
        IF str[i] = "A" THEN "a" ELSE IF str[i] = "B" THEN "b" ELSE str[i]]

\* String.prototype.includes.
includes(str, sub) ==
    \E i \in 1..(Len(str) - Len(sub) + 1) : SubSeq(str, i, i + Len(sub) - 1) = sub

\* String(v) of a cell that may be undefined.
String(cell) == IF IsDefined(cell) THEN cell[1] ELSE "undefined"

(***************************************************************************)
(* Table Store (tableStore.js): addRows, sortTable, getRows and the        *)
(* notification of the subscribers.                                        *)
(***************************************************************************)
Entry(row, index) == [row |-> row, index |-> index]

getRows(tbl) == [i \in 1..Len(tbl) |-> tbl[i].row]

\* The entries of tbl that are the first with their url.
RECURSIVE DedupByUrl(_, _)
DedupByUrl(tbl, seenUrls) ==
    IF Len(tbl) = 0 THEN <<>>
    ELSE IF tbl[1].row.url \in seenUrls THEN DedupByUrl(Tail(tbl), seenUrls)
    ELSE <<tbl[1]>> \o DedupByUrl(Tail(tbl), seenUrls \cup {tbl[1].row.url})

NextIndex(tbl) ==
    IF Len(tbl) = 0 THEN 0
    ELSE 1 + CHOOSE m \in {tbl[i].index : i \in 1..Len(tbl)} :
                 \A i \in 1..Len(tbl) : tbl[i].index <= m

\* addRows(rows): append, then deduplicate the whole sequence by url.
addRows(tbl, rows) ==
    DedupByUrl(tbl \o [k \in 1..Len(rows) |-> Entry(rows[k], NextIndex(tbl) + k - 1)], {})

\* The key sortTable compares: the insertion index for "index", else the
\* row's number in the field, 0 when it has none.
SortKey(entry, field) ==
    IF field = "index" THEN entry.index
    ELSE IF field \in DOMAIN entry.row /\ IsDefined(entry.row[field])
    THEN entry.row[field][1] ELSE 0

\* Stable insertion of e into the sorted sequence s.
RECURSIVE InsertSorted(_, _, _, _)
InsertSorted(s, e, field, ascending) ==
    IF Len(s) = 0 THEN <<e>>
    ELSE LET last == s[Len(s)]
             before == IF ascending THEN SortKey(e, field) < SortKey(last, field)
                       ELSE SortKey(e, field) > SortKey(last, field) IN
         IF before
         THEN Append(InsertSorted(SubSeq(s, 1, Len(s) - 1), e, field, ascending), last)
         ELSE Append(s, e)

RECURSIVE StableSort(_, _, _)
StableSort(tbl, field, ascending) ==
    IF Len(tbl) = 0 THEN <<>>
    ELSE InsertSorted(StableSort(SubSeq(tbl, 1, Len(tbl) - 1), field, ascending),
                      tbl[Len(tbl)], field, ascending)

\* sortTable(field, ascending): the special field "index" reverts to the
\* insertion order; any other field is a stable sort in the given direction.
sortTable(tbl, field, ascending) ==
    IF field = "index" THEN StableSort(tbl, "index", TRUE)
    ELSE StableSort(tbl, field, ascending)

(***************************************************************************)
(* The main page: two components of the repository subscribe to the store  *)
(* and filter its rows, an earlier one ("v1": filterRows and the           *)
(* available* lists) and a later one ("v2": applyFilters and the *Options  *)
(* lists).                                                                 *)
(***************************************************************************)
\* The most calls of addRows in a behaviour.
MaxAdds == 1

\* A row of the page: url and the optional cells the page reads.
PageRow(url, name, description, dim, org, fbbi, sizeX) ==
    [url |-> url, name |-> name, description |-> description, dim_count |-> dim,
     organismId |-> org, fbbiId |-> fbbi, size_x |-> sizeX]

\* The batches loadCsv hands to addRows.
Batches ==
    LET RowA == PageRow(<<"a">>, Some(<<"B">>), Some(<<>>), Some("3"), Some("o1"), Some("m1"), Some(2))
        RowB == PageRow(<<"b">>, Some(<<"b">>), Undefined, Some("2"), Some("o2"), Some("m1"), Some(1))
        RowC == PageRow(<<"c", "A">>, Undefined, Some(<<"a", "b">>), Some("3"), Some("o2"), Some("m2"), Undefined)
        RowD == PageRow(<<"d">>, Some(<<"d">>), Some(<<"d">>), Undefined, Some(""), Some("m1"), Some(3))
        \* A second row with the url of RowB and other cells.
        RowB2 == PageRow(<<"b">>, Some(<<"a">>), Undefined, Some("3"), Some("o1"), Some("m2"), Some(5))
    IN  { <<RowA, RowB, RowC>>, <<RowD, RowB2>>, <<RowC, RowD>> }

\* The ids the ontology stores hold a name for.
OrganismIds == {"o1", "o2", "o9"}

ImagingIds == {"m1", "m2"}

Filters(dimension, organism, modality, text) ==
    [dimension |-> dimension, organism |-> organism, modality |-> modality, text |-> text]

NoFilters == Filters("", "", "", <<>>)

\* Lines 524-531 of v2: the row matches the lower-cased text txt.
MatchesText(r, txt) ==
    \/ includes(toLowerCase(r.url), txt)
    \/ (IsDefined(r.description) /\ includes(toLowerCase(r.description[1]), txt))
    \/ (IsDefined(r.name) /\ includes(toLowerCase(r.name[1]), txt))

\* A variant of applyFilters whose early return forgets two of the filters.
applyFiltersEarlyReturn(rows, f) ==
    LET txt == toLowerCase(f.text)
        Keep(r) ==
            /\ ~(f.dimension # "" /\ String(r.dim_count) # f.dimension)
            /\ ~(f.organism # "" /\ r.organismId # Some(f.organism))
            /\ ~(f.modality # "" /\ r.fbbiId # Some(f.modality))
            /\ ~(txt # <<>> /\ ~MatchesText(r, txt)) IN
    IF f.dimension = "" /\ f.organism = ""
    THEN rows
    ELSE SelectSeq(rows, Keep)

\* applyFilters(rows) of v2, lines 511-535.
applyFilters(rows, f) ==
    LET txt == toLowerCase(f.text)
        Keep(r) ==
            /\ ~(f.dimension # "" /\ String(r.dim_count) # f.dimension)
            /\ ~(f.organism # "" /\ r.organismId # Some(f.organism))
            /\ ~(f.modality # "" /\ r.fbbiId # Some(f.modality))
            /\ ~(txt # <<>> /\ ~MatchesText(r, txt)) IN
    IF f.dimension = "" /\ f.organism = "" /\ f.modality = "" /\ f.text = <<>>
    THEN rows
    ELSE SelectSeq(rows, Keep)

\* filterRows(rows) of v1, lines 79-106: four filters in a row.
filterRows(rows, f) ==
    LET ByDim(r) == r.dim_count = Some(f.dimension)
        ByOrg(r) == r.organismId = Some(f.organism)
        ByMod(r) == r.fbbiId = Some(f.modality)
        ByTxt(r) == MatchesText(r, toLowerCase(f.text))
        r1 == IF f.dimension # "" THEN SelectSeq(rows, ByDim) ELSE rows
        r2 == IF f.organism # "" THEN SelectSeq(r1, ByOrg) ELSE r1
        r3 == IF f.modality # "" THEN SelectSeq(r2, ByMod) ELSE r2 IN
    IF f.text # <<>> THEN SelectSeq(r3, ByTxt) ELSE r3

\* The filter function of the mounted page.
Visible(pg, rows, f) == IF pg = "v1" THEN filterRows(rows, f) ELSE applyFilters(rows, f)

\* .map(...).filter(Boolean) on cells: the defined, non-empty values.
Truthy(cells) == {c[1] : c \in {x \in cells : IsDefined(x) /\ x[1] # ""}}

\* dimensionOptions of v2, lines 564-577: the values offered.
dimensionOptions(rows, f) ==
    { v \in { String(r.dim_count) :
                r \in { q \in Range(rows) :
                          /\ (f.organism = "" \/ q.organismId = Some(f.organism))
                          /\ (f.modality = "" \/ q.fbbiId = Some(f.modality)) } } :
        v # "" }

\* organismOptions of v2, lines 578-587.
organismOptions(rows, f) ==
    { id \in OrganismIds :
        \E r \in Range(rows) :
            /\ (f.modality = "" \/ r.fbbiId = Some(f.modality))
            /\ (f.dimension = "" \/ String(r.dim_count) = f.dimension)
            /\ r.organismId = Some(id) }

\* modalityOptions of v2, lines 589-598.
modalityOptions(rows, f) ==
    { id \in ImagingIds :
        \E r \in Range(rows) :
            /\ (f.organism = "" \/ r.organismId = Some(f.organism))
            /\ (f.dimension = "" \/ String(r.dim_count) = f.dimension)
            /\ r.fbbiId = Some(id) }

\* allDimensionValues of v1, lines 132-134.
allDimensionValues(rows) == { v \in { String(r.dim_count) : r \in Range(rows) } : v # "" }

\* availableDimensions of v1, lines 137-153, as offered by the template
\* (each value of allDimensionValues that availableDimensions includes).
availableDimensions(rows, f) ==
    IF Len(rows) = 0 THEN allDimensionValues(rows)
    ELSE allDimensionValues(rows) \cap
         { v \in { String(r.dim_count) :
                     r \in { q \in Range(rows) :
                               /\ (f.organism = "" \/ q.organismId = Some(f.organism))
                               /\ (f.modality = "" \/ q.fbbiId = Some(f.modality)) } } :
             v # "" }

\* availableOrganismIds of v1, lines 156-174, as offered by the template (the
\* ids of the ontology store that availableOrganismIds includes).
availableOrganismIds(rows, f) ==
    IF Len(rows) = 0 THEN OrganismIds
    ELSE OrganismIds \cap
         Truthy({ r.organismId :
                    r \in { q \in Range(rows) :
                              /\ (f.modality = "" \/ q.fbbiId = Some(f.modality))
                              /\ (f.dimension = "" \/ String(q.dim_count) = f.dimension) } })

\* availableImagingIds of v1, lines 177-193, as offered by the template.
availableImagingIds(rows, f) ==
    IF Len(rows) = 0 THEN ImagingIds
    ELSE ImagingIds \cap
         Truthy({ r.fbbiId :
                    r \in { q \in Range(rows) :
                              /\ (f.organism = "" \/ q.organismId = Some(f.organism))
                              /\ (f.dimension = "" \/ String(q.dim_count) = f.dimension) } })

\* The values the select of a filter offers besides its empty option.
Offered(pg, key, rows, f) ==
    CASE key = "dimension" ->
           IF pg = "v1" THEN availableDimensions(rows, f) ELSE dimensionOptions(rows, f)
      [] key = "organism" ->
           IF pg = "v1" THEN availableOrganismIds(rows, f) ELSE organismOptions(rows, f)
      [] key = "modality" ->
           IF pg = "v1" THEN availableImagingIds(rows, f) ELSE modalityOptions(rows, f)

\* A variant of handleSort that hands the empty value to the store.
handleSortFieldAsIs(pg, value) == value

\* The field handleSort asks the store to sort by: v1 lines 69-76, v2 lines
\* 554-557.
handleSortField(pg, value) == IF value = "" THEN "index" ELSE value

handleSortAscending(pg, value, ascending) ==
    IF pg = "v1" /\ value = "" THEN TRUE ELSE ascending

InIndexOrder(tbl) == \A i, j \in 1..Len(tbl) : i < j => tbl[i].index < tbl[j].index

\* The subscriber of the page, v1 lines 31-38 and v2 lines 501-506.
Notify(tbl) ==
    /\ tableRows' = Visible(page, getRows(tbl), filters)
    /\ totalZarrs' = Len(tbl)

PageIdle ==
    /\ table = <<>>
    /\ page = "v2"
    /\ allRows = <<>>
    /\ filters = NoFilters
    /\ tableRows = <<>>
    /\ totalZarrs = 0
    /\ sortedBy = ""
    /\ sortAscending = FALSE
    /\ sortLog = [handler |-> "none", reordered |-> FALSE, adds |-> 0]

\* The page is created on a store that is empty, or that already holds the
\* rows of an earlier load (the store outlives the page).
PageCreated ==
    /\ page \in {"v1", "v2"}
    /\ table \in {<<>>} \cup {addRows(<<>>, b) : b \in Batches}
    /\ allRows = getRows(table)
    /\ filters = NoFilters
    /\ tableRows = getRows(table)
    /\ totalZarrs = Len(table)
    /\ sortedBy = ""
    /\ sortAscending = FALSE
    /\ sortLog = [handler |-> "none", reordered |-> FALSE, adds |-> 0]

\* A load hands a batch to addRows; the store notifies the page.
StoreAddRows ==
    /\ sortLog.adds < MaxAdds
    /\ \E b \in Batches :
         /\ table' = addRows(table, b)
         /\ Notify(table')
    /\ sortLog' = [sortLog EXCEPT !.adds = @ + 1]
    /\ UNCHANGED <<page, allRows, filters, sortedBy, sortAscending>>
    /\ UNCHANGED <<resolveVars, thumbVars, ingestVars, viewVars, pureVars>>

\* A variant of the handlers that filters the rows the page took from the
\* store when it was created.
filteredOnChangeFromSnapshot(pg, tbl, snapshot, f) == Visible(pg, snapshot, f)

\* The rows a changed filter shows: applyFilters(ngffTable.getRows()) at
\* line 539 of v2, filterRows(ngffTable.getRows()) at lines 108-126 of v1.
filteredOnChange(pg, tbl, snapshot, f) == Visible(pg, getRows(tbl), f)

\* setFilter(key, value) of v2 (lines 537-540), filterDimensions and the
\* like of v1 (lines 108-126), on a value the select offers or on its
\* empty option.
SetFilter ==
    /\ \E key \in {"dimension", "organism", "modality"} :
         \E value \in Offered(page, key, allRows, filters) \cup {""} :
           filters' = [filters EXCEPT ![key] = value]
    /\ tableRows' = filteredOnChange(page, table, allRows, filters')
    /\ UNCHANGED <<table, page, allRows, totalZarrs, sortedBy, sortAscending, sortLog>>
    /\ UNCHANGED <<resolveVars, thumbVars, ingestVars, viewVars, pureVars>>

\* filterText: the text input changes.
FilterText ==
    /\ \E text \in { <<>>, <<"a">>, <<"B">>, <<"d">> } : filters' = [filters EXCEPT !.text = text]
    /\ tableRows' = filteredOnChange(page, table, allRows, filters')
    /\ UNCHANGED <<table, page, allRows, totalZarrs, sortedBy, sortAscending, sortLog>>
    /\ UNCHANGED <<resolveVars, thumbVars, ingestVars, viewVars, pureVars>>

\* handleSort: the sort select changes; the store sorts and notifies.
HandleSort ==
    /\ \E value \in {"size_x"} \cup {""} :
         /\ sortedBy' = value
         /\ table' = sortTable(table, handleSortField(page, value),
                               handleSortAscending(page, value, sortAscending))
    /\ Notify(table')
    /\ sortLog' = [sortLog EXCEPT !.handler = "handleSort",
                                  !.reordered = ~InIndexOrder(table)]
    /\ UNCHANGED <<page, allRows, filters, sortAscending>>
    /\ UNCHANGED <<resolveVars, thumbVars, ingestVars, viewVars, pureVars>>

\* toggleSortAscending.
ToggleSortAscending ==
    /\ sortAscending' = ~sortAscending
    /\ table' = sortTable(table, sortedBy, sortAscending')
    /\ Notify(table')
    /\ sortLog' = [sortLog EXCEPT !.handler = "toggleSortAscending"]
    /\ UNCHANGED <<page, allRows, filters, sortedBy>>
    /\ UNCHANGED <<resolveVars, thumbVars, ingestVars, viewVars, pureVars>>

(***************************************************************************)
(* CSV ingestion: getViewConfig and loadCsv (util.js).                     *)
(***************************************************************************)
\* The most calls of loadCsv in a behaviour.
NumLoads == 2

\* The columns of the model's manifests and rows.
Columns == {"url", "written", "collection", "collection_url"}

\* String.prototype.trim.
RECURSIVE TrimStart(_)
TrimStart(str) ==
    IF Len(str) > 0 /\ str[1] = " " THEN TrimStart(Tail(str)) ELSE str

RECURSIVE TrimEnd(_)
TrimEnd(str) ==
    IF Len(str) > 0 /\ str[Len(str)] = " "
    THEN TrimEnd(SubSeq(str, 1, Len(str) - 1)) ELSE str

trim(str) == TrimEnd(TrimStart(str))

\* (cell || "").trim()
TrimmedOrEmpty(cell) == IF IsDefined(cell) THEN trim(cell[1]) ELSE <<>>

\* No url of the model is an array index or the name of a property of
\* Object.prototype, so the object `unique` of loadCsv is a plain map that
\* lists its keys in the order they were set.
None == <<"n", "o", "n", "e">>

EmptyRow == [c \in Columns |-> Undefined]

\* The parsed YAML documents the server may hold, and the failure to fetch
\* or parse one.  samples: cfg.samples; extended: cfg.extended_samples, each
\* item its url and its other fields; collections: cfg.collections, or
\* Undefined when the document has none.
ViewFile(ok, samples, extended, collections) ==
    [ok |-> ok, samples |-> samples, extended |-> extended, collections |-> collections]

Item(url, rest) == [url |-> url, rest |-> rest]

Collection(name, url) == [name |-> name, url |-> url]

ViewFiles ==
    { ViewFile(FALSE, <<>>, <<>>, Undefined),
      ViewFile(TRUE, <<>>, <<>>, Undefined),
      ViewFile(TRUE, <<<<"a">>, <<"c", " ">>, <<"x", ".", "c", "s", "v">>>>,
               <<Item(<<"b">>, [written |-> Some(<<"7">>)]),
                 Item(<<"c">>, [collection |-> Some(<<"q">>)])>>,
               Some(<<Collection(None, <<"u">>)>>)) }

\* What getViewConfig resolves to (lines 56-79): fallback = TRUE after a
\* failure (the predicate accepts every row, no overrides, no cfg).
ViewConfigOf(file) ==
    IF ~file.ok
    THEN [fallback |-> TRUE, allowed |-> {}, overrides |-> <<>>, hasCfg |-> FALSE,
          collections |-> Undefined]
    ELSE [fallback |-> FALSE,
          allowed |-> {trim(u) : u \in Range(file.samples)}
                      \cup {trim(it.url) : it \in {x \in Range(file.extended) : x.url # <<>>}},
          overrides |-> SelectSeq(file.extended, LAMBDA it : it.url # <<>>),
          hasCfg |-> TRUE,
          collections |-> file.collections]

NoViewConfig == ViewConfigOf(ViewFile(FALSE, <<>>, <<>>, Undefined))

\* predicate(row), line 72 or line 78.
predicate(cfg, row) == cfg.fallback \/ TrimmedOrEmpty(row.url) \in cfg.allowed

\* overrides.get(key): the fields of the last item set under the key.
HasOverride(cfg, key) == \E i \in 1..Len(cfg.overrides) : trim(cfg.overrides[i].url) = key

OverrideOf(cfg, key) ==
    LET last == CHOOSE i \in 1..Len(cfg.overrides) :
                    /\ trim(cfg.overrides[i].url) = key
                    /\ \A j \in (i + 1)..Len(cfg.overrides) : trim(cfg.overrides[j].url) # key
    IN  cfg.overrides[last].rest

\* A variant of Object.assign in which the fields of the row win.
AssignKeepsRow(row, patch) ==
    [c \in Columns |-> IF c \in DOMAIN patch /\ ~IsDefined(row[c]) THEN patch[c] ELSE row[c]]

\* Object.assign(row, patch).
Assign(row, patch) == [c \in Columns |-> IF c \in DOMAIN patch THEN patch[c] ELSE row[c]]

\* A manifest as Papa.parse delivers it: results.data, rows of cells.  A
\* request is a call of loadCsv: the manifest and the parentRow.
Request(data, parentRow) == [data |-> data, parentRow |-> parentRow]

Requests ==
    { Request(<< <<"url", "written">>, <<<<"a">>, <<"1">>>>, <<<<"a">>, <<"2">>>>,
                 <<<<" ", "b">>, <<"3">>>>, <<<<"b">>, <<"6">>>> >>, EmptyRow),
      Request(<< <<"url", "written">>, <<<<"a">>, <<"9">>>>, <<<<"c">>>>, <<<<"b">>, <<"4">>>> >>,
              [EmptyRow EXCEPT !.collection = Some(<<"p">>)]),
      Request(<< <<<<"c">>>>, <<<<"x", ".", "c", "s", "v">>>>, <<<<"z">>>> >>,
              [EmptyRow EXCEPT !.written = Some(<<"5">>)]),
      Request(<<>>, EmptyRow) }

\* Lines 97-102: the data rows, after the header row when there is one.
Body(data) == IF Len(data[1]) > 1 THEN Tail(data) ELSE data

\* Lines 103-109: a row object over the parentRow.
RowObj(colNames, cells, parentRow) ==
    [c \in Columns |->
        IF \E i \in 1..Len(colNames) : colNames[i] = c
        THEN LET i == CHOOSE k \in 1..Len(colNames) :
                          colNames[k] = c /\ \A j \in (k + 1)..Len(colNames) : colNames[j] # c
             IN  IF i <= Len(cells) THEN Some(cells[i]) ELSE Undefined
        ELSE parentRow[c]]

DataRows(req) ==
    \* Lines 97-102: the column names and the data rows.
    LET colNames == IF Len(req.data[1]) > 1 THEN req.data[1] ELSE <<"url">>
        body == Body(req.data) IN
    [k \in 1..Len(body) |-> RowObj(colNames, body[k], req.parentRow)]

\* Lines 120-127: the override of the row's trimmed url, and the default
\* collection.
Patched(cfg, row) ==
    LET key == TrimmedOrEmpty(row.url)
        updatedRow == IF HasOverride(cfg, key) THEN Assign(row, OverrideOf(cfg, key)) ELSE row
    IN  IF ~IsDefined(updatedRow.collection) \/ updatedRow.collection = Some(<<>>)
        THEN [updatedRow EXCEPT !.collection = Some(None)]
        ELSE updatedRow

\* Lines 118-128: filter(predicate).map(patch).
ZarrUrlRows(cfg, dataRows) ==
    LET kept == SelectSeq(dataRows, LAMBDA row : predicate(cfg, row)) IN
    [k \in 1..Len(kept) |-> Patched(cfg, kept[k])]

\* A variant of the deduplication in which the last row of a url wins.
RECURSIVE UniqueLastWins(_, _)
UniqueLastWins(rows, keys) ==
    IF Len(rows) = 0 THEN <<>>
    ELSE IF \E k \in 2..Len(rows) : rows[k].url = rows[1].url
    THEN UniqueLastWins(Tail(rows), keys)
    ELSE <<rows[1]>> \o UniqueLastWins(Tail(rows), keys)

\* Lines 130-134: the first row of each url.
RECURSIVE Unique(_, _)
Unique(rows, keys) ==
    IF Len(rows) = 0 THEN <<>>
    ELSE IF rows[1].url \in keys THEN Unique(Tail(rows), keys)
    ELSE <<rows[1]>> \o Unique(Tail(rows), keys \cup {rows[1].url})

\* Lines 139-145 on one row: the url of the last collection of its name.
WithCollectionUrl(collections, row) ==
    IF \E i \in 1..Len(collections) : row.collection = Some(collections[i].name)
    THEN LET i == CHOOSE k \in 1..Len(collections) :
                      /\ row.collection = Some(collections[k].name)
                      /\ \A j \in (k + 1)..Len(collections) :
                            row.collection # Some(collections[j].name)
         IN  [row EXCEPT !.collection_url = Some(collections[i].url)]
    ELSE row

\* The complete callback (lines 96-165) on the resolved view configuration:
\* it throws (results.data[0] of an empty manifest, cfg.collections without
\* a cfg, Object.values of no collections), or calls addRows with rows.
\* made: the rows of line 128, before the deduplication, as addRows would
\* have received them.
Completed(req, cfg) ==
    IF Len(req.data) = 0 \/ ~cfg.hasCfg \/ ~IsDefined(cfg.collections)
    THEN [threw |-> TRUE, rows |-> <<>>, made |-> <<>>]
    ELSE LET made == ZarrUrlRows(cfg, DataRows(req))
             unique == Unique(made, {}) IN
         [threw |-> FALSE,
          rows |-> [k \in 1..Len(unique) |-> WithCollectionUrl(cfg.collections[1], unique[k])],
          made |-> [k \in 1..Len(made) |-> WithCollectionUrl(cfg.collections[1], made[k])]]

\* A cell of a row, undefined for a column the row does not have.
Cell(row, name) == IF name \in DOMAIN row THEN row[name] ELSE Undefined

\* The value of a decimal digit, -1 for any other character.
DigitValue(c) ==
    CASE c = "0" -> 0 [] c = "1" -> 1 [] c = "2" -> 2 [] c = "3" -> 3 [] c = "4" -> 4
      [] c = "5" -> 5 [] c = "6" -> 6 [] c = "7" -> 7 [] c = "8" -> 8 [] c = "9" -> 9
      [] OTHER -> -1

RECURSIVE ParseDigits(_, _, _)
ParseDigits(str, i, acc) ==
    IF i > Len(str) \/ DigitValue(str[i]) < 0 THEN acc
    ELSE ParseDigits(str, i + 1, acc * 10 + DigitValue(str[i]))

\* parseInt(cell || fallback) on a cell of unsigned digits.
ParseIntOr(cell, fallback) ==
    IF ~IsDefined(cell) \/ cell[1] = <<>> THEN Some(fallback)
    ELSE IF DigitValue(TrimStart(cell[1])[1]) < 0 THEN NaN
    ELSE Some(ParseDigits(TrimStart(cell[1]), 1, 0))

\* acc + parseInt(..) over rows, NaN once a term is.
RECURSIVE SumOf(_, _, _)
SumOf(rows, name, fallback) ==
    IF Len(rows) = 0 THEN Some(0)
    ELSE LET term == ParseIntOr(Cell(rows[Len(rows)], name), fallback)
             rest == SumOf(SubSeq(rows, 1, Len(rows) - 1), name, fallback) IN
         IF term = NaN \/ rest = NaN THEN NaN ELSE Some(rest[1] + term[1])

\* Lines 147-161: the aggregates of the rows of a manifest, which stay
\* locals of the callback.
Aggregates(rows) ==
    LET plate_count == Cardinality({k \in 1..Len(rows) :
                          IsDefined(Cell(rows[k], "wells")) /\ Cell(rows[k], "wells")[1] # <<>>})
    IN  [plate_count |-> plate_count,
         bytes |-> SumOf(rows, "written", 0),
         image_count |-> IF plate_count > 0 THEN SumOf(rows, "images", 1)
                         ELSE Some(Len(rows))]

\* A call of loadCsv.  made and got are history: the rows it made, and what
\* its await of getViewConfig() gave it.
Load(req, pc, made) == [req |-> req, pc |-> pc, made |-> made, got |-> Undefined]

\* A variant of the test of line 53 that looks for a result, not a promise.
StartsFetchUnlessResolved(vc) == vc.state # "resolved"

\* Line 53: getViewConfig starts the fetch when no promise is cached.
StartsFetch(vc) == vc.state = "null"

IngestIdle ==
    /\ viewConfig = [state |-> "null", value |-> NoViewConfig]
    /\ loads = <<>>
    /\ waiting = <<>>
    /\ ingestLog = [order |-> <<>>, summaries |-> <<>>, fetches |-> 0]

\* The loads ids, in order, end: each throws or calls addRows, which
\* notifies the page.  The result is the table and the loads afterwards.
RECURSIVE Resume(_, _, _, _, _)
Resume(ids, cfg, tbl, lds, order) ==
    IF Len(ids) = 0 THEN [table |-> tbl, loads |-> lds, order |-> order]
    ELSE LET id == ids[1]
             done == Completed(lds[id].req, cfg) IN
         IF done.threw
         THEN Resume(Tail(ids), cfg, tbl,
                     [lds EXCEPT ![id].pc = "threw", ![id].got = Some(cfg)], order)
         ELSE Resume(Tail(ids), cfg, addRows(tbl, done.rows),
                     [lds EXCEPT ![id].pc = "done", ![id].made = done.made,
                                 ![id].got = Some(cfg)],
                     Append(order, id))

\* loadCsv(csvUrl, ngffTable, parentRow): Papa.parse starts the download.
LoadCsv ==
    /\ Len(loads) < NumLoads
    /\ \E req \in Requests : loads' = Append(loads, Load(req, "parsing", <<>>))
    /\ UNCHANGED <<viewConfig, waiting, ingestLog>>
    /\ UNCHANGED <<resolveVars, thumbVars, storeVars, pageVars, viewVars, pureVars>>

\* The download of a manifest fails: Papa.parse never calls complete.
DownloadFails ==
    /\ \E id \in 1..Len(loads) :
         /\ loads[id].pc = "parsing"
         /\ loads' = [loads EXCEPT ![id].pc = "failed"]
    /\ UNCHANGED <<viewConfig, waiting, ingestLog>>
    /\ UNCHANGED <<resolveVars, thumbVars, storeVars, pageVars, viewVars, pureVars>>

\* complete(results) of a load runs.  An empty manifest throws at line 99.
\* Otherwise the callback awaits getViewConfig(), which starts the fetch
\* when no promise is cached; on a resolved promise the rest of the
\* callback follows in the same microtask chain.
Complete ==
    /\ \E id \in 1..Len(loads) :
         /\ loads[id].pc = "parsing"
         /\ IF Len(loads[id].req.data) = 0
            THEN /\ loads' = [loads EXCEPT ![id].pc = "threw"]
                 /\ UNCHANGED <<viewConfig, waiting, ingestLog, table, tableRows, totalZarrs>>
            ELSE IF viewConfig.state = "resolved"
            THEN LET after == Resume(<<id>>, viewConfig.value, table, loads, ingestLog.order) IN
                 /\ loads' = after.loads
                 /\ table' = after.table
                 /\ ingestLog' = [ingestLog EXCEPT !.order = after.order]
                 /\ IF after.table = table
                    THEN UNCHANGED <<tableRows, totalZarrs>>
                    ELSE Notify(table')
                 /\ UNCHANGED <<viewConfig, waiting>>
            ELSE /\ loads' = [loads EXCEPT ![id].pc = "awaitConfig"]
                 /\ waiting' = Append(waiting, id)
                 /\ viewConfig' = [viewConfig EXCEPT !.state = "pending"]
                 /\ ingestLog' = [ingestLog EXCEPT !.fetches =
                                     IF StartsFetch(viewConfig) THEN @ + 1 ELSE @]
                 /\ UNCHANGED <<table, tableRows, totalZarrs>>
    /\ UNCHANGED <<page, allRows, filters, sortedBy, sortAscending, sortLog>>
    /\ UNCHANGED <<resolveVars, thumbVars, viewVars, pureVars>>

\* The fetch of config.yaml settles and _viewConfigPromise resolves; the
\* callbacks awaiting it go on in the order they began to wait.
ViewConfigSettles ==
    /\ viewConfig.state = "pending"
    /\ \E file \in ViewFiles :
         LET cfg == ViewConfigOf(file)
             after == Resume(waiting, cfg, table, loads, ingestLog.order) IN
         /\ viewConfig' = [state |-> "resolved", value |-> cfg]
         /\ loads' = after.loads
         /\ table' = after.table
         /\ ingestLog' = [ingestLog EXCEPT !.order = after.order]
         /\ IF after.order = ingestLog.order
            THEN UNCHANGED <<tableRows, totalZarrs>>
            ELSE Notify(table')
    /\ waiting' = <<>>
    /\ UNCHANGED <<page, allRows, filters, sortedBy, sortAscending, sortLog>>
    /\ UNCHANGED <<resolveVars, thumbVars, viewVars, pureVars>>

(***************************************************************************)
(* Specifications.                                                         *)
(***************************************************************************)
ResolveInit == ResolveIdle /\ ThumbIdle /\ PageIdle /\ IngestIdle /\ ViewIdle /\ PureIdle

ResolveNext == Mount \/ Destroy \/ FetchSettles \/ JsonSettles

SpecResolve == ResolveInit /\ [][ResolveNext]_vars

ThumbInit == ResolveIdle /\ ThumbIdle /\ PageIdle /\ IngestIdle /\ ViewIdle /\ PureIdle

ThumbNext == GenerateThumbnail \/ OpenSettles \/ ReadsSettle

SpecThumb == ThumbInit /\ [][ThumbNext]_vars

PageInit == ResolveIdle /\ ThumbIdle /\ PageCreated /\ IngestIdle /\ ViewIdle /\ PureIdle

PageNext == StoreAddRows \/ SetFilter \/ FilterText \/ HandleSort \/ ToggleSortAscending

SpecPage == PageInit /\ [][PageNext]_vars

IngestInit == ResolveIdle /\ ThumbIdle /\ PageIdle /\ IngestIdle /\ ViewIdle /\ PureIdle

IngestNext == LoadCsv \/ DownloadFails \/ Complete \/ ViewConfigSettles

SpecIngest == IngestInit /\ [][IngestNext]_vars

ViewInit == ResolveIdle /\ ThumbIdle /\ PageIdle /\ IngestIdle /\ ViewIdle /\ PureIdle

ViewNext ==
    \/ ThumbnailMount \/ ThumbnailDestroy \/ ProbeLoads \/ ProbeFails
    \/ ThumbnailOpenSettles \/ ThumbnailReadsSettle \/ RenderSettles

SpecView == ViewInit /\ [][ViewNext]_vars

CoreInit == ResolveIdle /\ ThumbIdle /\ PageIdle /\ IngestIdle /\ ViewIdle /\ PureIdle

CoreNext == HexToRGB \/ GetDefaultColors \/ RenderTo8bitArray

SpecCore == CoreInit /\ [][CoreNext]_vars

(***************************************************************************)
(* Properties.                                                             *)
(***************************************************************************)
\* The rows the loads handed over before their own deduplication, in the
\* order of the addRows calls.
RECURSIVE SubmittedIn(_)
SubmittedIn(order) ==
    IF Len(order) = 0 THEN <<>>
    ELSE loads[order[1]].made \o SubmittedIn(Tail(order))

Submitted == SubmittedIn(ingestLog.order)

FirstWithUrl(rows, url) ==
    rows[CHOOSE k \in 1..Len(rows) :
            rows[k].url = url /\ \A j \in 1..(k - 1) : rows[j].url # url]

\* C1: after any interleaving of manifest ingestions, the store holds
\* exactly one row per distinct url handed to addRows, and that row is the
\* first-seen row of the url, overrides applied.
C1_OneRowPerUrlFirstSeen ==
    /\ \A i, j \in 1..Len(table) : i # j => table[i].row.url # table[j].row.url
    /\ {table[i].row.url : i \in 1..Len(table)} = {r.url : r \in Range(Submitted)}
    /\ \A i \in 1..Len(table) :
         table[i].row = FirstWithUrl(Submitted, table[i].row.url)

\* Two loads have called addRows, and a url of the store was handed over
\* three times with different cells, in one manifest and across the two.
C1_Witness ==
    /\ Len(ingestLog.order) = 2
    /\ \E i \in 1..Len(table) :
         /\ Cardinality({r \in Range(Submitted) : r.url = table[i].row.url}) >= 3
         /\ \E id \in 1..Len(loads) :
              Cardinality({r \in Range(loads[id].made) : r.url = table[i].row.url}) >= 2

\* "url ends in .csv"
EndsWithCsv(cell) ==
    /\ IsDefined(cell)
    /\ Len(cell[1]) >= 4
    /\ SubSeq(cell[1], Len(cell[1]) - 3, Len(cell[1])) = <<".", "c", "s", "v">>

\* C2: a row whose url ends in .csv is never handed to addRows as a leaf
\* row (it starts a nested loadCsv instead).
C2_NoManifestRowAsLeaf ==
    /\ \A id \in 1..Len(loads) : \A r \in Range(loads[id].made) : ~EndsWithCsv(r.url)
    /\ \A i \in 1..Len(table) : ~EndsWithCsv(table[i].row.url)

AllDone ==
    /\ Len(loads) > 0
    /\ \A id \in 1..Len(loads) : loads[id].pc \in {"done", "threw", "failed"}

\* The store had the loads called addRows in the order of their calls of
\* loadCsv.
RECURSIVE InCallOrder(_, _)
InCallOrder(id, tbl) ==
    IF id > Len(loads) THEN tbl
    ELSE InCallOrder(id + 1, IF loads[id].pc = "done" THEN addRows(tbl, loads[id].made)
                             ELSE tbl)

RowSet(tbl) == {tbl[i].row : i \in 1..Len(tbl)}

\* C3: once the sibling manifests are ingested, the rows of the store and
\* their cells are those of every order of the addRows calls, the order of
\* the loadCsv calls among them.
C3_SameStateInEveryOrder == AllDone => RowSet(table) = RowSet(InCallOrder(1, <<>>))

FilterKeys == {"dimension", "organism", "modality", "text"}

\* The Filter Set with the filter of key alone.
Only(f, key) == [NoFilters EXCEPT ![key] = f[key]]

\* C4: whatever the rows of the store and the four filter values, the rows
\* the page shows are the rows of the store that each filter yields when it
\* is applied on its own, and with no filter they are all the rows in the
\* order of the store; whichever of the two filter functions the page has.
C4_FiltersIntersect ==
    LET rows == getRows(table) IN
    /\ Range(tableRows) =
         {r \in Range(rows) :
            \A key \in FilterKeys : r \in Range(Visible(page, rows, Only(filters, key)))}
    /\ filters = NoFilters => tableRows = rows

\* The page shows some rows and hides others under two filters at once, each
\* of which hides a row the other one keeps.
C4_Witness ==
    /\ filters.organism # "" /\ filters.text # <<>>
    /\ Len(tableRows) > 0
    /\ tableRows = Visible(page, getRows(table), filters)
    /\ \E r \in Range(getRows(table)) :
         /\ r \in Range(Visible(page, getRows(table), Only(filters, "organism")))
         /\ r \notin Range(Visible(page, getRows(table), Only(filters, "text")))
    /\ \E r \in Range(getRows(table)) :
         /\ r \notin Range(Visible(page, getRows(table), Only(filters, "organism")))
         /\ r \in Range(Visible(page, getRows(table), Only(filters, "text")))

\* The row satisfies the filters other than the one of key, the text
\* filter included.
SatisfiesOthers(r, f, key) ==
    /\ (key = "dimension" \/ f.dimension = "" \/ String(r.dim_count) = f.dimension)
    /\ (key = "organism" \/ f.organism = "" \/ r.organismId = Some(f.organism))
    /\ (key = "modality" \/ f.modality = "" \/ r.fbbiId = Some(f.modality))
    /\ (f.text = <<>> \/ MatchesText(r, toLowerCase(f.text)))

Carries(r, key, value) ==
    CASE key = "dimension" -> String(r.dim_count) = value
      [] key = "organism" -> r.organismId = Some(value)
      [] key = "modality" -> r.fbbiId = Some(value)

\* C5: every value a filter's option list offers has a row of the store that
\* carries it and satisfies all the other active filters, the text filter
\* included (on a page whose option lists were derived from some rows).
C5_OfferedValuesHaveRows ==
    Len(allRows) > 0 =>
      \A key \in {"dimension", "organism", "modality"} :
        \A value \in Offered(page, key, allRows, filters) :
          \E r \in Range(getRows(table)) :
            Carries(r, key, value) /\ SatisfiesOthers(r, filters, key)

IsPlateDocument(d) == d.ome /\ d.multiscales = 0 /\ d.plate

\* C7: an activation on a root whose document declares a plate resolves to
\* the descriptor and root that the activation on <root>/<path of well
\* 0>/0 resolved to, and to the plate of its own document as a third result
\* that is not none.
C7_PlateResolvesThroughFirstWell ==
    \A p \in returned :
      LET url == p[1] IN
      (Has(served, url) /\ IsPlateDocument(Get(served, url))
         /\ Get(served, url).hasWells /\ Len(Get(served, url).wells) > 0) =>
        LET d == Get(served, url)
            inner == url \o <<d.wells[1], "0">> IN
        /\ Has(returned, inner)
        /\ ~Get(returned, inner).rejected =>
             /\ ~p[2].rejected
             /\ p[2].tuple.msData = Get(returned, inner).tuple.msData
             /\ p[2].tuple.msUrl = Get(returned, inner).tuple.msUrl
             /\ p[2].tuple.plate = Some([hasWells |-> TRUE, wells |-> d.wells])
             /\ p[2].tuple.plate # Undefined

\* The row asked for a plate of two wells, and got the image of its first
\* well and the plate.
C7_Witness ==
    /\ item.phase = "assigned"
    /\ IsDefined(item.imgAttrs) /\ IsDefined(item.plateAttrs)
    /\ Len(item.plateAttrs[1].wells) = 2
    /\ \E root \in Roots :
         item.imgUrl = Some(root \o <<item.plateAttrs[1].wells[1], "0">>)

\* C8: loadMultiscales never rejects, and the descriptor it resolves to is
\* an image block or none.
C8_NeverRejects ==
    /\ item.phase # "rejected"
    /\ \A p \in returned :
         /\ ~p[2].rejected
         /\ (IsDefined(p[2].tuple.msData) => p[2].tuple.msData[1].multiscales > 0)

\* C9: after an abort that found the descriptor fetch in flight, the
\* continuation of the caller does not run and no warning is logged.
C9_NoContinuationAfterAbort ==
    resolveLog.abortedInFlight =>
      (~resolveLog.continuedAfterAbort /\ ~resolveLog.warnedAfterAbort)

\* C10: when the trailing plane of the opened level exceeds maxSize squared
\* the call returns no result and has issued no slice read; a slice read is
\* issued only for a plane within the budget.
C10_OversizedPlaneIsNotRead ==
    arr.shape # <<>> =>
      LET n == Len(arr.shape)
          plane == arr.shape[n] * arr.shape[n - 1]
          budget == thumbArgs.maxSize * thumbArgs.maxSize IN
      /\ plane > budget => (thumbPc = "done" /\ thumbResult = "null" /\ sliceReads = <<>>)
      /\ sliceReads # <<>> => plane <= budget

\* A level with more than one channel and an oversized plane was opened.
C10_Witness ==
    /\ thumbPc = "done" /\ thumbResult = "null" /\ sliceReads = <<>>
    /\ Len(arr.shape) = 3
    /\ arr.shape[1] > 1
    /\ arr.shape[2] * arr.shape[3] > thumbArgs.maxSize * thumbArgs.maxSize

\* The descriptor has no resolution level: no multiscale entry, or a first
\* entry without datasets.
NoLevels(attrs) ==
    Len(attrs.multiscales) = 0 \/ Len(attrs.multiscales[1].paths) = 0

\* C11: for a descriptor without resolution levels generateThumbnail
\* returns no result, opens no array and raises no error.
C11_NoLevelsNoOpen ==
    (thumbPc # "idle" /\ NoLevels(thumbArgs.attrs)) =>
      /\ thumbPc = "done"
      /\ thumbResult = "null"
      /\ arr = NoArray

C13_FallbackShowsAllRows ==
    (viewConfig.state = "resolved" /\ viewConfig.value.fallback) =>
      \A id \in 1..Len(loads) :
        (Len(loads[id].req.data) > 0 /\ loads[id].pc \in {"done", "threw"}) =>
          /\ loads[id].pc = "done"
          /\ \A r \in Range(DataRows(loads[id].req)) :
               \E i \in 1..Len(table) : table[i].row.url = r.url

\* C14: hexToRGB fails with a format error for every string that, without
\* an optional leading '#', is not exactly six hexadecimal digits, and for
\* a valid string it returns three numbers in 0..255.
C14_MalformedColourFails ==
    pure.op = "hexToRGB" =>
      LET hex == pure.args[1]
          digits == IF Len(hex) > 0 /\ hex[1] = "#" THEN Tail(hex) ELSE hex
          valid == Len(digits) = 6 /\ \A i \in 1..6 : digits[i] \in {"0", "F"} IN
      IF valid
      THEN /\ ~pure.result.threw
           /\ \A i \in 1..3 :
                /\ pure.result.rgb[i] # NaN
                /\ pure.result.rgb[i][1] \in 0..255
      ELSE pure.result.threw

\* The colour triples of the default policy.
Triple(r, g, b) == <<Some(r), Some(g), Some(b)>>

PolicyPalette == <<Triple(0, 255, 255), Triple(255, 255, 0), Triple(255, 0, 255),
                   Triple(255, 0, 0)>>

VisibleBefore(visibilities, idx) == Cardinality({j \in 1..(idx - 1) : visibilities[j]})

\* C15: getDefaultColors(n, visibility) returns n colours: white for one
\* channel; magenta, green for two; red, green, blue for three; cyan,
\* yellow, magenta, red for four; for more, white at every invisible index
\* and the colour k mod 4 of cyan, yellow, magenta, red at the k-th visible
\* index.
C15_DefaultColourPolicy ==
    pure.op = "getDefaultColors" =>
      LET n == pure.args[1]
          visibilities == pure.args[2]
          colors == pure.result.colors IN
      /\ ~pure.result.threw
      /\ Len(colors) = n
      /\ n = 1 => colors = <<Triple(255, 255, 255)>>
      /\ n = 2 => colors = <<Triple(255, 0, 255), Triple(0, 255, 0)>>
      /\ n = 3 => colors = <<Triple(255, 0, 0), Triple(0, 255, 0), Triple(0, 0, 255)>>
      /\ n = 4 => colors = PolicyPalette
      /\ n > 4 =>
           \A idx \in 1..n :
             colors[idx] = IF visibilities[idx]
                           THEN PolicyPalette[(VisibleBefore(visibilities, idx) % 4) + 1]
                           ELSE Triple(255, 255, 255)

\* The share of channel p in component i of pixel y: its value normalized
\* to the extremes of its chunk, times the colour component, cut to an
\* integer; nothing for a chunk of one value.
Share(chunks, colors, p, y, i) ==
    LET data == chunks[p].data
        lo == CHOOSE v \in Range(data) : \A w \in Range(data) : v <= w
        hi == CHOOSE v \in Range(data) : \A w \in Range(data) : w <= v IN
    IF hi = lo THEN 0 ELSE ((data[y] - lo) * colors[p][i][1]) \div (hi - lo)

\* C16: for every pixel, each of the components R, G and B of the result
\* is the largest share of a channel, not their sum, and lies in 0..255, and
\* alpha is 255.
C16_CompositeIsMaximum ==
    pure.op = "renderTo8bitArray" =>
      LET chunks == pure.args[1]
          colors == pure.args[3]
          rgba == pure.result IN
      /\ Len(rgba) = 4 * Len(chunks[1].data)
      /\ \A y \in 1..Len(chunks[1].data) :
           /\ rgba[4 * (y - 1) + 4] = 255
           /\ \A i \in 1..3 :
                LET shares == {Share(chunks, colors, p, y, i) : p \in 1..Len(chunks)} IN
                /\ rgba[4 * (y - 1) + i] \in shares
                /\ \A v \in shares : v <= rgba[4 * (y - 1) + i]
                /\ rgba[4 * (y - 1) + i] \in 0..255

\* Two channels have a share in the red of a pixel, and the sum of the
\* shares would still be a byte.
C16_Witness ==
    /\ pure.op = "renderTo8bitArray"
    /\ Len(pure.args[1]) = 2
    /\ pure.args[3][1] # pure.args[3][2]
    /\ \E y \in 1..3 :
         LET s1 == Share(pure.args[1], pure.args[3], 1, y, 1)
             s2 == Share(pure.args[1], pure.args[3], 2, y, 1) IN
         /\ s1 > 0 /\ s2 > 0 /\ s1 + s2 <= 255
         /\ pure.result[4 * (y - 1) + 1] = s1
         /\ pure.result[4 * (y - 1) + 2] = 127

\* C17: once a manifest is ingested the store holds a source summary for
\* it, handed over through addSourceSummary: the number of rows with wells,
\* the sum of the parsed written cells, and the number of rows or, with a
\* plate among them, the sum of their images cells, 1 for a missing one.
C17_SourceSummarySubmitted ==
    \A id \in 1..Len(loads) :
      loads[id].pc = "done" =>
        \E k \in 1..Len(ingestLog.summaries) :
          ingestLog.summaries[k] = Aggregates(Unique(loads[id].made, {}))

\* C18: the slice of every visible channel is composited with the colour
\* of that channel, whatever channels are invisible (for a descriptor that
\* marks visible only channels the array has).
C18_ChannelKeepsItsColour ==
    thumbResult = "raster" =>
      LET axes == thumbArgs.attrs.multiscales[1].axes
          channelCount == ChannelCount(arr.shape, IndexOf(axes, "c"))
          vis == Visibilities(thumbArgs.attrs, channelCount)
          colors == Colors(thumbArgs.attrs, channelCount, vis)
          visible == {c \in 1..Len(vis) : vis[c]} IN
      (\A c \in visible : c <= channelCount) =>
        \A c \in visible :
          LET p == Cardinality({b \in visible : b < c}) IN
          ColorOfChunk(colors, p) = colors[c]

\* The activations of the pending call that wait at pc for a nested one.
Descents(pc) == {i \in 1..Len(calls) : calls[i].pc = pc}

\* C19: whatever the server answers, a call of loadMultiscales descends
\* once into <root>/0 for a wrapped single image and once into the first
\* well of a plate, and no further.
C19_DescendsOnce ==
    /\ Cardinality(Descents("bf2raw")) <= 1
    /\ Cardinality(Descents("plate")) <= 1

\* C20: however many loads call getViewConfig, one after the other or
\* while the fetch is pending, config.yaml is fetched at most once and every
\* load is given the same result, the fallback of a failed fetch included.
C20_ViewConfigFetchedOnce ==
    /\ ingestLog.fetches <= 1
    /\ ingestLog.fetches = 0 <=> viewConfig.state = "null"
    /\ \A id \in 1..Len(loads) :
         IsDefined(loads[id].got) =>
           /\ viewConfig.state = "resolved"
           /\ loads[id].got = Some(viewConfig.value)
    /\ \A id1, id2 \in 1..Len(loads) :
         (IsDefined(loads[id1].got) /\ IsDefined(loads[id2].got)) =>
           loads[id1].got = loads[id2].got

\* Two loads were given the fallback of the one fetch, which failed.
C20_Witness ==
    /\ Len(loads) = 2
    /\ \A id \in 1..2 : IsDefined(loads[id].got) /\ loads[id].got[1].fallback
    /\ ingestLog.fetches = 1
    /\ viewConfig.state = "resolved"

\* The rows load id handed to addRows came from: the row objects of its
\* manifest with the url of r.
SourcesOf(id, r) == {d \in Range(DataRows(loads[id].req)) : d.url = r.url}

\* The fields the view configuration registers for a trimmed url: those of
\* the last extended sample of that url, none when there is no such sample.
Registered(cfg, key) ==
    LET at == {i \in 1..Len(cfg.overrides) : trim(cfg.overrides[i].url) = key} IN
    IF at = {} THEN <<>>
    ELSE cfg.overrides[CHOOSE i \in at : \A j \in at : j <= i].rest

Supplied(cell) == IsDefined(cell) /\ cell[1] # <<>>

\* C21: every row loadCsv passes to addRows satisfies the allow-list
\* predicate, carries the override fields registered for its trimmed url on
\* top of the fields of its manifest row, and has a non-empty collection,
\* "none" when neither the manifest row nor the override supplied one.
C21_SubmittedRowsFilteredAndPatched ==
    \A id \in Range(ingestLog.order) :
        \A r \in Range(loads[id].made) :
            LET cfg == loads[id].got[1]
                key == TrimmedOrEmpty(r.url)
                patch == Registered(cfg, key) IN
            /\ key \in cfg.allowed
            /\ \E d \in SourcesOf(id, r) :
                 /\ \A c \in DOMAIN patch : r[c] = patch[c]
                 /\ \A c \in Columns \ (DOMAIN patch \cup {"collection", "collection_url"}) :
                       r[c] = d[c]
                 /\ Supplied(r.collection)
                 /\ ("collection" \notin DOMAIN patch /\ Supplied(d.collection))
                        => r.collection = d.collection
                 /\ (~Supplied(d.collection) /\ "collection" \notin DOMAIN patch)
                        => r.collection = Some(None)

\* A load handed over a row whose manifest cell was replaced by the
\* override of its trimmed url and whose collection is the default, and a
\* row whose collection is the one its override registers.
C21_Witness ==
    \E id \in Range(ingestLog.order) :
        /\ \E r \in Range(loads[id].made) :
             /\ r.url = Some(<<" ", "b">>)
             /\ r.written = Some(<<"7">>)
             /\ r.collection = Some(None)
             /\ \E d \in SourcesOf(id, r) : d.written = Some(<<"3">>)
        /\ \E id2 \in Range(ingestLog.order) :
             \E r \in Range(loads[id2].made) :
                /\ r.collection = Some(<<"q">>)
                /\ \E d \in SourcesOf(id2, r) : d.collection = Some(<<"p">>)

\* C22: generateThumbnail opens the level at the explicit index when the
\* index is valid (0 <= index < number of levels) and otherwise the last
\* level; the path it opens is always one of the descriptor's level paths.
C22_OpensChosenLevel ==
    (thumbPc # "idle" /\ Len(thumbArgs.attrs.multiscales) > 0) =>
      LET paths == thumbArgs.attrs.multiscales[1].paths
          index == thumbArgs.index IN
      /\ arr.path \in Range(paths)
      /\ (IsDefined(index) /\ 0 <= index[1] /\ index[1] < Len(paths))
            => arr.path = paths[index[1] + 1]
      /\ ~(IsDefined(index) /\ 0 <= index[1] /\ index[1] < Len(paths))
            => arr.path = paths[Len(paths)]

\* The channels generateThumbnail shows, 0-based: the active ones of the
\* display hints, or the first MAX_CHANNELS of the array's channels.
VisibleChannels(attrs, channels) ==
    IF IsDefined(attrs.omero)
    THEN {c \in 0..(Len(attrs.omero[1]) - 1) : attrs.omero[1][c + 1].active}
    ELSE {c \in 0..(channels - 1) : c < MAX_CHANNELS}

C24_ReadsJoined ==
    /\ Len(reads) = Len(sliceReads)
    /\ thumbPc = "read" =>
         /\ Len(reads) > 0
         /\ \A k \in 1..Len(reads) : reads[k] \in {"pending", "done"}
         /\ \E k \in 1..Len(reads) : reads[k] = "pending"
         /\ thumbResult = "pending"
    /\ thumbResult = "raster" => \A k \in 1..Len(reads) : reads[k] = "done"
    /\ (\E k \in 1..Len(reads) : reads[k] = "failed") =>
         (thumbPc = "done" /\ thumbResult = "rejected")

\* Of several reads one completed and another failed, in either order, and
\* the call has rejected.
C24_Witness ==
    /\ Len(reads) >= 2
    /\ \E j, k \in 1..Len(reads) : reads[j] = "done" /\ reads[k] = "failed"
    /\ thumbPc = "done"
    /\ thumbResult = "rejected"

\* The chunk of channel p holds one value only, so the range
\* getMinMaxValues finds for it has max equal to min.
OneValue(chunks, p) == Cardinality(Range(chunks[p].data)) = 1

\* C25: a channel whose range is degenerate (max equal to min) contributes
\* 0 to every colour component of every pixel: where there is such a
\* channel, each component is the largest share of the channels with a
\* range, 0 without one, and every value written is a byte.
C25_DegenerateRangeContributesNothing ==
    pure.op = "renderTo8bitArray" =>
      LET chunks == pure.args[1]
          minmax == pure.args[2]
          colors == pure.args[3]
          rgba == pure.result
          ranged == {q \in 1..Len(chunks) : minmax[q][1] # minmax[q][2]} IN
      /\ \A k \in 1..Len(rgba) : rgba[k] \in 0..255
      /\ ranged # 1..Len(chunks) =>
           \A y \in 1..Len(chunks[1].data), i \in 1..3 :
              LET shares == {0} \cup
                    {((chunks[q].data[y] - minmax[q][1]) * colors[q][i][1])
                        \div (minmax[q][2] - minmax[q][1]) : q \in ranged} IN
              /\ rgba[4 * (y - 1) + i] \in shares
              /\ \A v \in shares : v <= rgba[4 * (y - 1) + i]

\* A channel of one value above 0 was rendered in white together with a
\* channel that has a range, and a pixel took its red from the latter.
C25_Witness ==
    /\ pure.op = "renderTo8bitArray"
    /\ Len(pure.args[1]) = 2
    /\ \E p, q \in 1..2 :
         /\ OneValue(pure.args[1], p)
         /\ pure.args[1][p].data[1] > 0
         /\ pure.args[2][p][1] = pure.args[2][p][2]
         /\ pure.args[3][p][1] = Some(255)
         /\ ~OneValue(pure.args[1], q)
         /\ \E y \in 1..3 : pure.result[4 * (y - 1) + 1] \in 1..254

\* C26: once the store has notified the page of added rows, the option
\* lists of the three filters are the cross-filter derivation over the
\* rows the store holds now, not over an earlier snapshot of them.
C26_OptionsFromCurrentRows ==
    sortLog.adds > 0 =>
      \A key \in {"dimension", "organism", "modality"} :
         Offered(page, key, allRows, filters) = Offered(page, key, getRows(table), filters)

\* C27: after any sequence of filter changes, sort requests and
\* notifications of the store, the rows the page shows are its filter
\* function applied to the rows the store holds now with the filter values
\* of now, in the order of the store; so it never shows more rows than the
\* total it displays.
C27_ShownRowsAreFilteredStoreRows ==
    /\ tableRows = Visible(page, getRows(table), filters)
    /\ Range(tableRows) \subseteq Range(getRows(table))
    /\ \A i, j \in 1..Len(tableRows) :
         i < j => \E a, b \in 1..Len(table) :
                     a < b /\ table[a].row = tableRows[i] /\ table[b].row = tableRows[j]
    /\ totalZarrs = Len(table)
    /\ Len(tableRows) <= totalZarrs

\* Rows were added to a page created on an empty store, the store was
\* sorted out of its insertion order, and a filter chosen afterwards shows
\* some of the rows and hides others.
C27_Witness ==
    /\ allRows = <<>>
    /\ sortLog.adds > 0
    /\ sortLog.handler # "none"
    /\ ~InIndexOrder(table)
    /\ filters # NoFilters
    /\ Len(tableRows) > 1
    /\ Len(tableRows) < Len(table)

\* C28: a component starts the live generation only after its probe for a
\* cached image has failed, and at most once; its mode goes from 'none' to
\* 'cached' or from 'none' to 'live', never from 'cached' to 'live' and
\* never back to 'none'.
C28_LiveOnlyAfterFailedProbe ==
    /\ view.generations <= 1
    /\ view.generations > 0 => view.probe = "failed"
    /\ view.live # "none" => view.probe = "failed"
    /\ view.modes \in { <<"none">>, <<"none", "cached">>, <<"none", "live">> }
    /\ view.mode = view.modes[Len(view.modes)]

\* A component that sets an image element has had its probe fail, has
\* rendered once and is in mode 'live'.
C28_Witness ==
    /\ view.probe = "failed"
    /\ view.generations = 1
    /\ view.live = "raster"
    /\ view.modes = <<"none", "live">>
    /\ view.component = "img"

\* C29: once a component is destroyed, no continuation of its probe or of
\* its live generation assigns its mode or its spinner state or writes to
\* its image or canvas element, and none of them raises an error.
C29_NothingAfterDestroy ==
    /\ ~view.lateWrite
    /\ ~view.lateError
    /\ (view.destroyed /\ view.pc \in {"probing", "generating", "rendering"}) =>
         (view.mode = view.modes[Len(view.modes)] /\ ~view.drawn)

\* The urls of the rows of the model: a root without its series0.
RowUrls == {SubSeq(root, 1, 2) : root \in Roots}

\* C30: the file name under which the pre-caching script stores the
\* thumbnail of a row, the basename of the row's url, is the file name the
\* row's thumbnail component probes, the basename of the source it is
\* given, which is the root the row's descriptor was resolved at; and two
\* rows with different urls have different file names.
C30_ProbesTheCachedName ==
    /\ (item.phase = "assigned" /\ IsDefined(item.imgAttrs)) =>
         basenameFromSource(item.imgUrl[1]) = basename(SubSeq(item.imgUrl[1], 1, 2))
    /\ \A u, v \in RowUrls : u # v => basename(u) # basename(v)

====
